---- MODULE Spec2Model ----
(***************************************************************************)
(* A model of the vasp-poscar crate: the line/word scanner and the POSCAR  *)
(* grammar of src/src/parse.rs, RawPoscar::validate of src/src/types.rs    *)
(* and the Display implementation of src/src/write.rs.                     *)
(*                                                                         *)
(* Text is modelled as sequences of one-character strings.  A file is the  *)
(* flat character sequence the formatter writes; BufLines splits it the    *)
(* way BufRead::lines does.  An f64 is modelled at a resolution of one     *)
(* tenth: the integer t stands for the real t/10, and NaN is a separate    *)
(* value.  Formatting and parsing of numbers work on the digits.           *)
(***************************************************************************)
EXTENDS Integers, Sequences, FiniteSets, TLC

(***************************************************************************)
(* Bounds of the model.                                                    *)
(***************************************************************************)
\* the largest number of atoms of the enumerated structures
MaxAtoms == 2
\* the width a formatting request with a width asks for
MaxWidth == 5
\* the largest number of lines after the last data line of a file
MaxTrailing == 2
\* the largest number of blank lines appended to a formatted file
MaxAppended == 3
\* the length of the longest token handed to the parser of logicals
MaxToken == 3
\* the length of the longest line handed to the tokenizer
MaxLine == 4
\* the computed accessors are followed on the numbers k / 2^GridBits
GridBits == 4
\* the width of usize and u64 in bits: sums of counts wrap modulo 2^UsizeBits
UsizeBits == 4

(***************************************************************************)
(* Option values.                                                          *)
(***************************************************************************)
None == [some |-> FALSE]

Some(x) == [some |-> TRUE, v |-> x]

(***************************************************************************)
(* Characters and strings.                                                 *)
(***************************************************************************)
Digits == <<"0", "1", "2", "3", "4", "5", "6", "7", "8", "9">>

IsDigit(c) == \E i \in 1..10 : Digits[i] = c

DigitVal(c) == (CHOOSE i \in 1..10 : Digits[i] = c) - 1

DigitChar(d) == Digits[d + 1]

\* parse.rs: the scanner's notion of whitespace
is_ascii_whitespace(b) == b \in {" ", "\t", "\r", "\n"}

\* char::is_whitespace (Unicode White_Space), as used by str::trim; the form
\* feed stands for the White_Space characters the scanner does not split on
IsWhiteSpace(c) == c \in {" ", "\t", "\r", "\n", "\f"}

RECURSIVE TrimStart(_)
TrimStart(s) ==
    IF s # <<>> /\ IsWhiteSpace(Head(s)) THEN TrimStart(Tail(s)) ELSE s

RECURSIVE TrimEnd(_)
TrimEnd(s) ==
    IF s # <<>> /\ IsWhiteSpace(s[Len(s)])
    THEN TrimEnd(SubSeq(s, 1, Len(s) - 1))
    ELSE s

\* str::trim
Trim(s) == TrimEnd(TrimStart(s))

\* a search that finds nothing
ContainsNothing(s, c) == FALSE

\* str::contains for a one-character pattern
Contains(s, c) == \E i \in 1..Len(s) : s[i] = c

RECURSIVE Concat(_)
Concat(ss) == IF ss = <<>> THEN <<>> ELSE Head(ss) \o Concat(Tail(ss))

RECURSIVE Repeat(_, _)
Repeat(c, n) == IF n <= 0 THEN <<>> ELSE <<c>> \o Repeat(c, n - 1)

RECURSIVE NatToChars(_)
NatToChars(n) ==
    IF n < 10 THEN <<DigitChar(n)>>
    ELSE NatToChars(n \div 10) \o <<DigitChar(n % 10)>>

RECURSIVE DigitsToNat(_)
DigitsToNat(s) ==
    IF s = <<>> THEN 0
    ELSE DigitsToNat(SubSeq(s, 1, Len(s) - 1)) * 10 + DigitVal(s[Len(s)])

AllDigits(s) == \A i \in 1..Len(s) : IsDigit(s[i])

Abs(x) == IF x < 0 THEN 0 - x ELSE x

\* a sum that stops after the first element
SumFirst(s) == IF s = <<>> THEN 0 ELSE Head(s)

\* usize::MAX and u64::MAX
UsizeMax == 2 ^ UsizeBits - 1

\* whether the build checks integer additions for overflow (debug
\* assertions on) or lets them wrap (off): a property of the build, fixed
\* for a run
VARIABLE overflow_checks

\* the panic of an addition that overflows under overflow checks
AddOverflow == "attempt to add with overflow"

RECURSIVE SumNat(_)
\* the sum of a list of numbers, in the integers
SumNat(s) == IF s = <<>> THEN 0 ELSE Head(s) + SumNat(Tail(s))

\* Iterator::sum over a Vec<usize>, when it returns: the sum in the machine
\* word
SumSeq(s) == SumNat(s) % (UsizeMax + 1)

\* Iterator::sum over a Vec<usize> panics: an addition overflows and the
\* build checks for it
SumPanics(s) == overflow_checks /\ SumNat(s) > UsizeMax

(***************************************************************************)
(* f64 at a resolution of one tenth.                                       *)
(***************************************************************************)
NaN == 0 - 1000000

IsNaN(x) == x = NaN

\* a comparison that also holds of equal values
FGe(x, y) == ~IsNaN(x) /\ ~IsNaN(y) /\ x >= y

\* f64 comparison operators: every comparison with NaN is false
FGt(x, y) == ~IsNaN(x) /\ ~IsNaN(y) /\ x > y

\* a comparison with zero that orders NaN too
TotalCmpZero(x) ==
    IF x < 0 THEN Some("Less") ELSE IF x > 0 THEN Some("Greater") ELSE Some("Equal")

\* f64::partial_cmp(&0.0)
PartialCmpZero(x) ==
    IF IsNaN(x) THEN None
    ELSE IF x < 0 THEN Some("Less")
    ELSE IF x > 0 THEN Some("Greater")
    ELSE Some("Equal")

FNeg(x) == IF IsNaN(x) THEN NaN ELSE 0 - x

\* position of the first '.' in s, or 0
DotPos(s) ==
    IF Contains(s, ".") THEN CHOOSE i \in 1..Len(s) : s[i] = "." /\ \A j \in 1..(i - 1) : s[j] # "." ELSE 0

\* <f64 as FromStr>::from_str for plain decimal literals and "NaN":
\* [sign] digits [. digits] with at least one digit; digits past the first
\* fractional one are below the resolution of the model
UnsignedDecimal(s) ==
    LET d == DotPos(s)
        ip == IF d = 0 THEN s ELSE SubSeq(s, 1, d - 1)
        fp == IF d = 0 THEN <<>> ELSE SubSeq(s, d + 1, Len(s))
    IN  IF AllDigits(ip) /\ AllDigits(fp) /\ Len(ip) + Len(fp) > 0
        THEN Some(DigitsToNat(ip) * 10 + (IF fp = <<>> THEN 0 ELSE DigitVal(fp[1])))
        ELSE None

ParseF64(s) ==
    IF s = <<"N", "a", "N">> THEN Some(NaN)
    ELSE IF s = <<>> THEN None
    ELSE IF s[1] = "-"
         THEN LET r == UnsignedDecimal(Tail(s))
              IN  IF r.some THEN Some(0 - r.v) ELSE None
    ELSE IF s[1] = "+" THEN UnsignedDecimal(Tail(s))
    ELSE UnsignedDecimal(s)

\* dtoa::write: the shortest decimal that reads back as the same value,
\* always with a fractional part
Dtoa(x) ==
    (IF x < 0 THEN <<"-">> ELSE <<>>)
        \o NatToChars(Abs(x) \div 10) \o <<".">> \o <<DigitChar(Abs(x) % 10)>>

\* the digits of <f64 as Display>::fmt without sign: shortest form without a
\* precision, fixed number of decimals with one (round half to even)
DisplayDigits(m, precision) ==
    IF ~precision.some
    THEN IF m % 10 = 0 THEN NatToChars(m \div 10)
         ELSE NatToChars(m \div 10) \o <<".">> \o <<DigitChar(m % 10)>>
    ELSE IF precision.v = 0
    THEN LET q == m \div 10
             r == m % 10
         IN  NatToChars(IF r > 5 \/ (r = 5 /\ q % 2 = 1) THEN q + 1 ELSE q)
    ELSE NatToChars(m \div 10) \o <<".">> \o <<DigitChar(m % 10)>>
             \o Repeat("0", precision.v - 1)

\* <f64 as Display>::fmt under the flags of the formatter: sign, digits, and
\* padding on the left up to the width
DisplayF64(x, style) ==
    LET body == IF IsNaN(x) THEN <<"N", "a", "N">>
                ELSE (IF x < 0 THEN <<"-">> ELSE IF style.plus THEN <<"+">> ELSE <<>>)
                         \o DisplayDigits(Abs(x), style.precision)
        w == IF style.width.some THEN style.width.v ELSE 0
    IN  Repeat(" ", w - Len(body)) \o body

(***************************************************************************)
(* parse.rs: lines and words with their position.                          *)
(***************************************************************************)
\* struct Spanned (the path is left out: it is only copied into errors)
Spanned(line, col, s) == [line |-> line, col |-> col, s |-> s]

\* a ParseError: kind, 0-based line and column
ParseError(kind, line, col) == [kind |-> kind, line |-> line, col |-> col]

Ok(v) == [ok |-> TRUE, v |-> v]

Err(e) == [ok |-> FALSE, err |-> e]

\* the outcome of a call that panics
Panic(msg) == [ok |-> FALSE, panic |-> msg]

\* a byte that occurs in no UTF-8 text
InvalidByte == "0xFF"

\* the io::Error of BufRead::lines for a line that is not UTF-8
InvalidData == [io |-> "stream did not contain valid UTF-8"]

\* the item the line source yields for this line is an Err
ReadFails(line) == \E i \in 1..Len(line) : line[i] = InvalidByte

\* Lines::next with `cur` lines already handed out: the first `?` returns
\* the end of file, the second the read error of the line source
LinesNext(lines, cur) ==
    IF cur >= Len(lines)
    THEN Err(ParseError("unexpected end of file", Some(cur), None))
    ELSE IF ReadFails(lines[cur + 1]) THEN Err(InvalidData)
    ELSE Ok(Spanned(cur, 0, lines[cur + 1]))

\* Spanned::error
SpannedError(sp, kind) == ParseError(kind, Some(sp.line), Some(sp.col))

\* a slice that forgets the column of the string it is cut from
SliceFromZero(sp, start, end) == Spanned(sp.line, start, SubSeq(sp.s, start + 1, end))

\* "<input>"
InputPlaceholder == <<"<", "i", "n", "p", "u", "t", ">">>

\* the position written as it is stored, counted from 0
PositionFmtZeroBased(line, col) ==
    IF ~line.some THEN <<>>
    ELSE IF ~col.some THEN NatToChars(line.v) \o <<":", " ">>
    ELSE NatToChars(line.v) \o <<":">> \o NatToChars(col.v) \o <<":", " ">>

\* ParseError::fmt: the position, counted from 1
PositionFmt(line, col) ==
    IF ~line.some THEN <<>>
    ELSE IF ~col.some THEN NatToChars(line.v + 1) \o <<":", " ">>
    ELSE NatToChars(line.v + 1) \o <<":">> \o NatToChars(col.v + 1) \o <<":", " ">>

\* ParseError::fmt for an error whose path is `path`: the text written
\* before the message of the kind, and the kind
ErrorFmt(path, e) ==
    [head |-> (IF path.some THEN path.v ELSE InputPlaceholder) \o <<":">>
                  \o PositionFmt(e.line, e.col),
     kind |-> e.kind]

\* Spanned::slice(start..end), 0-based and half-open
Slice(sp, start, end) == Spanned(sp.line, sp.col + start, SubSeq(sp.s, start + 1, end))

\* the pairs (prev, cur) that Spanned::words zips, at 0-based index i
PrevAt(s, i) == IF i = 0 THEN " " ELSE s[i]

CurAt(s, i) == IF i < Len(s) THEN s[i + 1] ELSE " "

RECURSIVE WordEnd(_, _)
\* the inner loop of Spanned::words: the first index from j on whose `cur` is
\* whitespace; -1 when the pairs run out (the panic! after the loop)
WordEnd(s, j) ==
    IF j > Len(s) THEN 0 - 1
    ELSE IF is_ascii_whitespace(CurAt(s, j)) THEN j
    ELSE WordEnd(s, j + 1)

RECURSIVE WordsFrom(_, _)
\* the outer loop of Spanned::words, from pair index i on
WordsFrom(sp, i) ==
    IF i > Len(sp.s) THEN <<>>
    ELSE IF is_ascii_whitespace(PrevAt(sp.s, i)) /\ ~is_ascii_whitespace(CurAt(sp.s, i))
         THEN LET e == WordEnd(sp.s, i + 1)
              IN  IF e < 0 THEN <<>>
                  ELSE <<Slice(sp, i, e)>> \o WordsFrom(sp, e + 1)
    ELSE WordsFrom(sp, i + 1)

\* Spanned::words
Words(sp) == WordsFrom(sp, 0)

\* Spanned::words reaches panic!("never encountered whitespace!")
WordsPanics(sp) ==
    \E i \in 0..Len(sp.s) :
        /\ is_ascii_whitespace(PrevAt(sp.s, i))
        /\ ~is_ascii_whitespace(CurAt(sp.s, i))
        /\ WordEnd(sp.s, i + 1) < 0

\* Words::next_or_err on an exhausted iterator
NextOrErr(sp, msg) == ParseError(msg, Some(sp.line), None)

\* the first character that is not white space
ControlCharTrimmed(sp) == IF Trim(sp.s) = <<>> THEN None ELSE Some(Trim(sp.s)[1])

\* Spanned::control_char
ControlChar(sp) == IF sp.s = <<>> THEN None ELSE Some(sp.s[1])

(***************************************************************************)
(* parse.rs: primitive parsers.                                            *)
(***************************************************************************)
\* a parser of logicals that knows no leading dot
ParseLogicalNoDot(input) ==
    IF input = <<>> THEN None
    ELSE IF input[1] \in {"t", "T"} THEN Some(TRUE)
    ELSE IF input[1] \in {"f", "F"} THEN Some(FALSE)
    ELSE None

\* <Logical as FromStr>::from_str
ParseLogical(input) ==
    LET s == IF input # <<>> /\ input[1] = "." THEN Tail(input) ELSE input
    IN  IF s = <<>> THEN None
        ELSE IF s[1] \in {"t", "T"} THEN Some(TRUE)
        ELSE IF s[1] \in {"f", "F"} THEN Some(FALSE)
        ELSE None

\* u64::from_str alone: a leading '+' is accepted
parse_u64(input) ==
    LET s == IF input # <<>> /\ input[1] = "+" THEN Tail(input) ELSE input
    IN  IF s # <<>> /\ AllDigits(s) /\ DigitsToNat(s) <= UsizeMax
        THEN Some(DigitsToNat(s)) ELSE None

\* <Unsigned as FromStr>::from_str and parse_unsigned: u64::from_str after
\* refusing a leading '+'
parse_unsigned(input) ==
    IF input # <<>> /\ input[1] = "+" THEN None
    ELSE IF input # <<>> /\ AllDigits(input) /\ DigitsToNat(input) <= UsizeMax
    THEN Some(DigitsToNat(input))
    ELSE None

\* Spanned::parse: the word parsed as the type whose error is of this kind
ParseWord(kind, s) == IF kind = "ParseFloat" THEN ParseF64(s) ELSE ParseLogical(s)

\* the k-th of three words.next_or_err(msg)?.parse()? calls, reading word
\* number off + k of the line: the error it returns, if any
Word3Error(ws, sp, off, k, msg, kind) ==
    IF Len(ws) < off + k THEN Some(NextOrErr(sp, msg))
    ELSE IF ~ParseWord(kind, ws[off + k].s).some THEN Some(SpannedError(ws[off + k], kind))
    ELSE None

\* arr_3![..] once the three calls have returned e1, e2, e3
Parse3Of(ws, off, kind, e1, e2, e3) ==
    IF e1.some THEN Err(e1.v)
    ELSE IF e2.some THEN Err(e2.v)
    ELSE IF e3.some THEN Err(e3.v)
    ELSE Ok([k \in 1..3 |-> ParseWord(kind, ws[off + k].s).v])

\* arr_3![_ => words.next_or_err(msg)?.parse()?] on words off+1 .. off+3
Parse3(ws, sp, off, msg, kind) ==
    Parse3Of(ws, off, kind, Word3Error(ws, sp, off, 1, msg, kind),
             Word3Error(ws, sp, off, 2, msg, kind), Word3Error(ws, sp, off, 3, msg, kind))

(***************************************************************************)
(* types.rs: RawPoscar, validation.                                        *)
(***************************************************************************)
\* enum ScaleLine
Factor(x) == [tag |-> "Factor", x |-> x]

Volume(x) == [tag |-> "Volume", x |-> x]

\* enum Coords
Cart(v) == [tag |-> "Cart", v |-> v]

Frac(v) == [tag |-> "Frac", v |-> v]

\* struct RawPoscar
RawPoscar(comment, scale, lattice_vectors, group_symbols, group_counts, positions, velocities, dynamics) ==
    [comment |-> comment, scale |-> scale, lattice_vectors |-> lattice_vectors,
     group_symbols |-> group_symbols, group_counts |-> group_counts,
     positions |-> positions, velocities |-> velocities, dynamics |-> dynamics]

\* enum ValidationError
InconsistentNumGroups == [kind |-> "InconsistentNumGroups"]

NewlineInComment == [kind |-> "NewlineInComment"]

BadScaleLine == [kind |-> "BadScaleLine"]

NoAtoms == [kind |-> "NoAtoms"]

InvalidSymbol(sym) == [kind |-> "InvalidSymbol", sym |-> sym]

WrongLength(field, n) == [kind |-> "WrongLength", field |-> field, n |-> n]

\* parse::is_valid_symbol_for_symbol_line: non-empty, no whitespace, no
\* leading digit
is_valid_symbol_for_symbol_line(sym) ==
    /\ sym # <<>>
    /\ \A i \in 1..Len(sym) : ~is_ascii_whitespace(sym[i])
    /\ ~IsDigit(sym[1])

\* Spanned::wrap_arbitrary: a string with a made-up position
wrap_arbitrary(s) == Spanned(0, 0, s)

\* a join that leaves the separator out
JoinNoSep(sep, ss) == Concat(ss)

RECURSIVE Join(_, _)
\* [String]::join and write_sep
Join(sep, ss) ==
    IF ss = <<>> THEN <<>>
    ELSE IF Len(ss) = 1 THEN ss[1]
    ELSE ss[1] \o sep \o Join(sep, Tail(ss))

\* the words of the joined symbols, as strings
Retokenized(group_symbols) ==
    LET ws == Words(wrap_arbitrary(Join(<<" ">>, group_symbols)))
    IN  [i \in 1..Len(ws) |-> ws[i].s]

\* the first symbol the per-symbol loop of validate rejects
FirstInvalidSymbol(group_symbols) ==
    LET i == CHOOSE i \in 1..Len(group_symbols) :
                 /\ ~is_valid_symbol_for_symbol_line(group_symbols[i])
                 /\ \A j \in 1..(i - 1) : is_valid_symbol_for_symbol_line(group_symbols[j])
    IN  group_symbols[i]

\* RawPoscar::validate: the error it returns, if any
ValidateError(self) ==
    LET n == SumSeq(self.group_counts)
    IN  IF self.group_symbols.some /\ Len(self.group_counts) # Len(self.group_symbols.v)
        THEN Some(InconsistentNumGroups)
        ELSE IF Contains(self.comment, "\n") THEN Some(NewlineInComment)
        ELSE IF Contains(self.comment, "\r") THEN Some(NewlineInComment)
        ELSE IF ~FGt(self.scale.x, 0) THEN Some(BadScaleLine)
        ELSE IF ~(n > 0) THEN Some(NoAtoms)
        ELSE IF /\ self.group_symbols.some
                /\ \E i \in 1..Len(self.group_symbols.v) :
                       ~is_valid_symbol_for_symbol_line(self.group_symbols.v[i])
        THEN Some(InvalidSymbol(Some(FirstInvalidSymbol(self.group_symbols.v))))
        ELSE IF /\ self.group_symbols.some
                /\ Retokenized(self.group_symbols.v) # self.group_symbols.v
        THEN Some(InvalidSymbol(None))
        ELSE IF Len(self.positions.v) # n THEN Some(WrongLength("positions", n))
        ELSE IF self.velocities.some /\ Len(self.velocities.v.v) # n
        THEN Some(WrongLength("velocities", n))
        ELSE IF self.dynamics.some /\ Len(self.dynamics.v) # n
        THEN Some(WrongLength("dynamics", n))
        ELSE None

\* a validate that checks nothing
ValidateUnchecked(self) == Ok(self)

\* RawPoscar::validate: Ok(Poscar(self)) or Err(error), or the panic of the
\* sum of the counts, which is computed after the check of the scale
Validate(self) ==
    IF /\ ValidateError(self).some
       /\ ValidateError(self).v.kind \in {"InconsistentNumGroups", "NewlineInComment", "BadScaleLine"}
    THEN Err(ValidateError(self).v)
    ELSE IF SumPanics(self.group_counts) THEN Panic(AddOverflow)
    ELSE IF ValidateError(self).some THEN Err(ValidateError(self).v)
    ELSE Ok(self)

\* Poscar::site_symbols panics: its assert_eq! on the two lengths fails
SiteSymbolsPanics(poscar) ==
    /\ poscar.group_symbols.some
    /\ Len(poscar.group_counts) # Len(poscar.group_symbols.v)

\* Poscar::group_symbols, collected
Poscar_group_symbols(poscar) == poscar.group_symbols

\* Poscar::group_counts, collected
Poscar_group_counts(poscar) == poscar.group_counts

\* Poscar::num_sites
num_sites(poscar) == Len(poscar.positions.v)

\* usize::saturating_sub
saturating_sub(a, b) == IF a >= b THEN a - b ELSE 0

\* struct RepeatN
RepeatN(value, n) == [value |-> value, n |-> n]

\* <RepeatN as Iterator>::next: the item and the iterator afterwards
RepeatNNext(self) ==
    IF self.n = 0
    THEN [item |-> None, self |-> self]
    ELSE [item |-> Some(self.value), self |-> [self EXCEPT !.n = self.n - 1]]

\* <RepeatN as DoubleEndedIterator>::next_back
RepeatNNextBack(self) == RepeatNNext(self)

\* counts.iter().zip(group_symbols).flat_map(|(&count, symbol)| RepeatN {..}):
\* the zipped pairs, the range of them not yet handed out (lo < i <= hi), and
\* the RepeatN open at the front and at the back
FlatMap(counts, symbols) ==
    [pairs |-> [i \in 1..Len(counts) |-> RepeatN(symbols[i], counts[i])],
     lo |-> 0, hi |-> Len(counts), frontiter |-> None, backiter |-> None]

\* <FlatMap as Iterator>::next
RECURSIVE FlatMapNext(_)
FlatMapNext(self) ==
    IF self.frontiter.some
    THEN IF RepeatNNext(self.frontiter.v).item.some
         THEN [item |-> RepeatNNext(self.frontiter.v).item,
               self |-> [self EXCEPT !.frontiter = Some(RepeatNNext(self.frontiter.v).self)]]
         ELSE FlatMapNext([self EXCEPT !.frontiter = None])
    ELSE IF self.lo < self.hi
    THEN FlatMapNext([self EXCEPT !.frontiter = Some(self.pairs[self.lo + 1]),
                                  !.lo = self.lo + 1])
    ELSE IF self.backiter.some
    THEN IF RepeatNNext(self.backiter.v).item.some
         THEN [item |-> RepeatNNext(self.backiter.v).item,
               self |-> [self EXCEPT !.backiter = Some(RepeatNNext(self.backiter.v).self)]]
         ELSE [item |-> None, self |-> [self EXCEPT !.backiter = None]]
    ELSE [item |-> None, self |-> self]

\* <FlatMap as DoubleEndedIterator>::next_back
RECURSIVE FlatMapNextBack(_)
FlatMapNextBack(self) ==
    IF self.backiter.some
    THEN IF RepeatNNextBack(self.backiter.v).item.some
         THEN [item |-> RepeatNNextBack(self.backiter.v).item,
               self |-> [self EXCEPT !.backiter = Some(RepeatNNextBack(self.backiter.v).self)]]
         ELSE FlatMapNextBack([self EXCEPT !.backiter = None])
    ELSE IF self.lo < self.hi
    THEN FlatMapNextBack([self EXCEPT !.backiter = Some(self.pairs[self.hi]),
                                      !.hi = self.hi - 1])
    ELSE IF self.frontiter.some
    THEN IF RepeatNNextBack(self.frontiter.v).item.some
         THEN [item |-> RepeatNNextBack(self.frontiter.v).item,
               self |-> [self EXCEPT !.frontiter = Some(RepeatNNextBack(self.frontiter.v).self)]]
         ELSE [item |-> None, self |-> [self EXCEPT !.frontiter = None]]
    ELSE [item |-> None, self |-> self]

\* struct WithKnownLen
WithKnownLen(it, len) == [iter |-> it, len |-> len]

\* <WithKnownLen as Iterator>::next
WithKnownLenNext(self) ==
    [item |-> FlatMapNext(self.iter).item,
     self |-> WithKnownLen(FlatMapNext(self.iter).self, saturating_sub(self.len, 1))]

\* a next_back that leaves len alone
WithKnownLenNextBackKeepingLen(self) ==
    [item |-> FlatMapNextBack(self.iter).item,
     self |-> WithKnownLen(FlatMapNextBack(self.iter).self, self.len)]

\* <WithKnownLen as DoubleEndedIterator>::next_back
WithKnownLenNextBack(self) ==
    [item |-> FlatMapNextBack(self.iter).item,
     self |-> WithKnownLen(FlatMapNextBack(self.iter).self, saturating_sub(self.len, 1))]

\* <WithKnownLen as ExactSizeIterator>::len, through size_hint
WithKnownLenLen(self) == self.len

\* Poscar::site_symbols, where its assert_eq! holds
site_symbols(poscar) ==
    IF Poscar_group_symbols(poscar).some
    THEN Some(WithKnownLen(FlatMap(poscar.group_counts, Poscar_group_symbols(poscar).v),
                           num_sites(poscar)))
    ELSE None

(***************************************************************************)
(* write.rs: Display for Poscar.                                           *)
(***************************************************************************)
\* the flags of a fmt::Formatter that the formatter looks at
FormatSpec(width, precision, plus, alternate) ==
    [width |-> width, precision |-> precision, plus |-> plus, alternate |-> alternate]

\* "{}"
DefaultFormat == FormatSpec(None, None, FALSE, FALSE)

\* FloatStyle::new
FloatStyleNew(f) ==
    IF f.width.some \/ f.precision.some \/ f.plus \/ f.alternate
    THEN "ForwardDisplay"
    ELSE "Dtoa"

\* FloatStyle::write_f64
write_f64(f, value) ==
    IF FloatStyleNew(f) = "ForwardDisplay" THEN DisplayF64(value, f) ELSE Dtoa(value)

\* FloatStyle::write_v3
write_v3(f, value) ==
    write_f64(f, value[1]) \o <<" ">> \o write_f64(f, value[2]) \o <<" ">> \o write_f64(f, value[3])

\* format!("{:>2}", s)
PadLeft2(s) == Repeat(" ", 2 - Len(s)) \o s

\* the flags written as digits
By3Digits(arr) ==
    LET fmt(b) == IF b THEN "1" ELSE "0"
    IN  <<fmt(arr[1]), " ", fmt(arr[2]), " ", fmt(arr[3])>>

\* By3 over the dynamics flags
By3Flags(arr) ==
    LET fmt(b) == IF b THEN "T" ELSE "F"
    IN  <<fmt(arr[1]), " ", fmt(arr[2]), " ", fmt(arr[3])>>

\* display: one position line
PositionLine(f, poscar, i) ==
    <<" ", " ">> \o write_v3(f, poscar.positions.v[i])
        \o (IF poscar.dynamics.some
            THEN <<" ">> \o By3Flags(poscar.dynamics.v[i])
            ELSE <<>>)
        \o <<"\n">>

\* display panics: a failed assert!, or dynamics[i] out of range
DisplayPanics(poscar) ==
    \/ Contains(poscar.comment, "\n")
    \/ Contains(poscar.comment, "\r")
    \/ poscar.group_counts = <<>>
    \/ poscar.dynamics.some /\ Len(poscar.dynamics.v) < Len(poscar.positions.v)

\* display: the text written for a Poscar under the flags f
Display(f, poscar) ==
    poscar.comment \o <<"\n">>
    \o <<" ", " ">>
    \o (IF poscar.scale.tag = "Factor"
        THEN write_f64(f, poscar.scale.x)
        ELSE <<"-">> \o write_f64(f, poscar.scale.x))
    \o <<"\n">>
    \o Concat([r \in 1..3 |->
                 <<" ", " ", " ", " ">> \o write_v3(f, poscar.lattice_vectors[r]) \o <<"\n">>])
    \o (IF poscar.group_symbols.some
        THEN <<" ", " ">>
             \o Join(<<" ">>, [i \in 1..Len(poscar.group_symbols.v) |->
                                  PadLeft2(poscar.group_symbols.v[i])])
             \o <<"\n">>
        ELSE <<>>)
    \o <<" ", " ">>
    \o Join(<<" ">>, [i \in 1..Len(poscar.group_counts) |->
                         PadLeft2(NatToChars(poscar.group_counts[i]))])
    \o <<"\n">>
    \o (IF poscar.dynamics.some
        THEN <<"S","e","l","e","c","t","i","v","e"," ","D","y","n","a","m","i","c","s","\n">>
        ELSE <<>>)
    \o (IF poscar.positions.tag = "Cart"
        THEN <<"C","a","r","t","e","s","i","a","n","\n">>
        ELSE <<"D","i","r","e","c","t","\n">>)
    \o Concat([i \in 1..Len(poscar.positions.v) |-> PositionLine(f, poscar, i)])
    \o (IF poscar.velocities.some
        THEN (IF poscar.velocities.v.tag = "Cart"
              THEN <<"C","a","r","t","e","s","i","a","n","\n">>
              ELSE <<"\n">>)
             \o Concat([i \in 1..Len(poscar.velocities.v.v) |->
                           <<" ", " ">> \o write_v3(f, poscar.velocities.v.v[i]) \o <<"\n">>])
        ELSE <<>>)

(***************************************************************************)
(* parse.rs: the grammar.                                                  *)
(***************************************************************************)
\* the messages of the grammar's errors
UnexpectedEndOfInput == "unexpected end of file"

ExpectedScale == "expected scale"

ScaleCannotBeZero == "scale cannot be zero"

ScaleCannotBeNaN == "scale cannot be nan"

TooManyScaleValues == "too many floats on scale line (expected just one)"

ExpectedElementOrCount == "expected at least one element or count"

InconsistentGroupCount == "Inconsistent number of counts"

ParseNoAtoms == "There must be at least one atom."

UnexpectedTrailingContent == "expected EOF"

\* the kinds of a primitive parser's error
InvalidNumber == "ParseFloat"

InvalidLogical == "ParseLogical"

\* the message of the expect on the parser's own call of validate
InvariantNotChecked == "an invariant was not checked during parsing (this is a bug!)"

\* the outcomes of from_reader: Ok(poscar), Err(error), or a panic
ParseOk(poscar) == [st |-> "ok", poscar |-> poscar]

ParseErr(e) == [st |-> "err", err |-> e]

ParsePanic(msg) == [st |-> "panic", msg |-> msg]

RECURSIVE CountsPrefix(_)
\* words.map(parse_unsigned).take_while(is_ok).collect()
CountsPrefix(ws) ==
    IF ws = <<>> \/ ~parse_unsigned(ws[1].s).some THEN <<>>
    ELSE <<parse_unsigned(ws[1].s).v>> \o CountsPrefix(Tail(ws))

\* a round that reads no flags
PositionFlagsNone(line, has_selective_dynamics) == Ok(<<>>)

\* one round of the loop over the atoms, the line and its three
\* coordinates having been read: the flags it reads, if any
PositionFlags(line, has_selective_dynamics) ==
    IF has_selective_dynamics
    THEN Parse3(Words(line), line, 3, "expected 3 boolean flags", InvalidLogical)
    ELSE Ok(<<>>)

\* one round, the coordinates p read: the pair of p and the flags d
PositionRoundOf(p, d) == IF ~d.ok THEN d ELSE Ok([p |-> p, d |-> d.v])

\* one round of the loop `for _ in 0..n` of _from_reader on a line
PositionRound(line, has_selective_dynamics, p) ==
    IF ~p.ok THEN p
    ELSE PositionRoundOf(p.v, PositionFlags(line, has_selective_dynamics))

RECURSIVE ReadPositions(_, _, _, _, _, _)
\* the loop `for _ in 0..n` of _from_reader with k rounds left, the next line
\* being line cur
ReadPositions(lines, cur, k, has_selective_dynamics, positions, dynamics) ==
    IF k = 0 THEN Ok([positions |-> positions, dynamics |-> dynamics, cur |-> cur])
    ELSE IF ~LinesNext(lines, cur).ok THEN LinesNext(lines, cur)
    ELSE LET line == Spanned(cur, 0, lines[cur + 1])
             r == PositionRound(line, has_selective_dynamics,
                                Parse3(Words(line), line, 0, "expected 3 coordinates", InvalidNumber))
         IN  IF ~r.ok THEN r
             ELSE ReadPositions(lines, cur + 1, k - 1, has_selective_dynamics,
                                Append(positions, r.v.p),
                                IF has_selective_dynamics THEN Append(dynamics, r.v.d) ELSE dynamics)

\* a loop over the trailing lines that accepts all of them
TrailingIgnored(lines, cur) == None

RECURSIVE TrailingError(_, _)
\* the loop `while let Ok(line) = lines.next()` from line cur on: the error
\* of its ensure!, if any
TrailingError(lines, cur) ==
    IF ~LinesNext(lines, cur).ok THEN None
    ELSE IF Trim(lines[cur + 1]) # <<>>
         THEN Some(SpannedError(Spanned(cur, 0, lines[cur + 1]), UnexpectedTrailingContent))
    ELSE TrailingError(lines, cur + 1)

\* the scale line, the first word having been compared with zero
ScaleOfCmp(words, value, cmp) ==
    IF cmp = Some("Equal") THEN Err(SpannedError(words[1], ScaleCannotBeZero))
    ELSE IF cmp = None THEN Err(SpannedError(words[1], ScaleCannotBeNaN))
    ELSE IF Len(words) >= 2 /\ ParseF64(words[2].s).some
    THEN Err(SpannedError(words[2], TooManyScaleValues))
    ELSE Ok(IF cmp = Some("Less") THEN Volume(FNeg(value)) ELSE Factor(value))

\* the scale line, the first word having been parsed
ScaleOfValue(words, value) ==
    IF ~value.some THEN Err(SpannedError(words[1], InvalidNumber))
    ELSE ScaleOfCmp(words, value.v, PartialCmpZero(value.v))

\* the scale line, split into words
ScaleOfWords(line, words) ==
    IF words = <<>> THEN Err(NextOrErr(line, ExpectedScale))
    ELSE ScaleOfValue(words, ParseF64(words[1].s))

\* _from_reader: the scale line
ParseScale(lines) ==
    IF ~LinesNext(lines, 1).ok THEN LinesNext(lines, 1)
    ELSE ScaleOfWords(Spanned(1, 0, lines[2]), Words(Spanned(1, 0, lines[2])))

\* one lattice line: line number cur
LatticeLine(lines, cur) ==
    IF ~LinesNext(lines, cur).ok THEN LinesNext(lines, cur)
    ELSE Parse3(Words(Spanned(cur, 0, lines[cur + 1])), Spanned(cur, 0, lines[cur + 1]), 0,
                "expected three components for lattice vector", InvalidNumber)

\* the lattice, its three lines having been read one after the other
LatticeOf(v1, v2, v3) ==
    IF ~v1.ok THEN v1
    ELSE IF ~v2.ok THEN v2
    ELSE IF ~v3.ok THEN v3
    ELSE Ok(<<v1.v, v2.v, v3.v>>)

\* _from_reader: the lattice
ParseLattice(lines) ==
    LatticeOf(LatticeLine(lines, 2), LatticeLine(lines, 3), LatticeLine(lines, 4))

\* the symbols and counts, the counts having been read off counts_line
CheckGroups(group_symbols, group_counts, counts_line, cur) ==
    IF group_symbols.some /\ Len(group_symbols.v) # Len(group_counts)
    THEN Err(SpannedError(counts_line, InconsistentGroupCount))
    ELSE IF SumPanics(group_counts) THEN Panic(AddOverflow)
    ELSE IF SumSeq(group_counts) = 0
    THEN Err(SpannedError(counts_line, ParseNoAtoms))
    ELSE Ok([group_symbols |-> group_symbols, group_counts |-> group_counts,
             n |-> SumSeq(group_counts), cur |-> cur])

\* the symbols and counts, the counts line having been asked for
GroupsOfCounts(group_symbols, counts_line, cur) ==
    IF ~counts_line.ok THEN counts_line
    ELSE CheckGroups(group_symbols, CountsPrefix(Words(counts_line.v)), counts_line.v, cur)

\* the strings of a list of words
WordStrings(words) == [i \in 1..Len(words) |-> words[i].s]

\* the symbols and counts, the line after the lattice having been read
GroupsOfLine(lines, line, words, trimmed) ==
    IF words = <<>> THEN Err(NextOrErr(line, ExpectedElementOrCount))
    ELSE IF trimmed = <<>> THEN Panic("index out of bounds")
    ELSE IF IsDigit(trimmed[1]) THEN GroupsOfCounts(None, Ok(line), 6)
    ELSE GroupsOfCounts(Some(WordStrings(words)), LinesNext(lines, 6), 7)

\* _from_reader: the symbols and counts
ParseGroups(lines) ==
    IF ~LinesNext(lines, 5).ok THEN LinesNext(lines, 5)
    ELSE GroupsOfLine(lines, Spanned(5, 0, lines[6]), Words(Spanned(5, 0, lines[6])),
                      Trim(lines[6]))

\* the flags, the line that decides the coordinate system having been asked for
FlagsOfTag(has_selective_dynamics, line, cur) ==
    IF ~line.ok THEN line
    ELSE Ok([has_selective_dynamics |-> has_selective_dynamics,
             has_direct |-> ControlChar(line.v) \notin {Some("c"), Some("C"), Some("k"), Some("K")},
             cur |-> cur])

\* _from_reader: the flags, read from line cur on
ParseFlags(lines, cur) ==
    IF ~LinesNext(lines, cur).ok THEN LinesNext(lines, cur)
    ELSE IF ControlChar(Spanned(cur, 0, lines[cur + 1])) \in {Some("s"), Some("S")}
    THEN FlagsOfTag(TRUE, LinesNext(lines, cur + 1), cur + 2)
    ELSE FlagsOfTag(FALSE, LinesNext(lines, cur), cur + 1)

\* _from_reader: the call of validate and its expect
Validated(res) ==
    IF ~res.ok THEN ParsePanic(InvariantNotChecked) ELSE ParseOk(res.v)

\* _from_reader: the trailing lines, then validate
Finish(raw, trailing) ==
    IF trailing.some THEN ParseErr(trailing.v) ELSE Validated(Validate(raw))

\* _from_reader after the flags: the positions pd, no velocities, the rest
AfterFlags(lines, comment, scale, lattice, g, flags, pd) ==
    IF ~pd.ok THEN ParseErr(pd.err)
    ELSE Finish(RawPoscar(comment, scale, lattice, g.group_symbols, g.group_counts,
                          IF flags.has_direct THEN Frac(pd.v.positions)
                                              ELSE Cart(pd.v.positions),
                          None,
                          IF flags.has_selective_dynamics THEN Some(pd.v.dynamics) ELSE None),
                TrailingError(lines, pd.v.cur))

\* _from_reader after the symbols and counts g
AfterGroups(lines, comment, scale, lattice, g, flags) ==
    IF ~flags.ok THEN ParseErr(flags.err)
    ELSE AfterFlags(lines, comment, scale, lattice, g, flags.v,
                    ReadPositions(lines, flags.v.cur, g.n, flags.v.has_selective_dynamics,
                                  <<>>, <<>>))

\* _from_reader after the lattice
AfterLattice(lines, comment, scale, lattice, groups) ==
    IF groups.ok
    THEN AfterGroups(lines, comment, scale, lattice, groups.v, ParseFlags(lines, groups.v.cur))
    ELSE IF "panic" \in DOMAIN groups THEN ParsePanic(groups.panic)
    ELSE ParseErr(groups.err)

\* _from_reader after the scale line
AfterScale(lines, comment, scale, lattice) ==
    IF ~lattice.ok THEN ParseErr(lattice.err)
    ELSE AfterLattice(lines, comment, scale, lattice.v, ParseGroups(lines))

\* _from_reader after the comment line
AfterComment(lines, comment, scale) ==
    IF ~scale.ok THEN ParseErr(scale.err)
    ELSE AfterScale(lines, comment, scale.v, ParseLattice(lines))

\* _from_reader, given the lines of the reader
FromLines(lines) ==
    IF ~LinesNext(lines, 0).ok THEN ParseErr(LinesNext(lines, 0).err)
    ELSE AfterComment(lines, lines[1], ParseScale(lines))

\* the 1-based positions of the line terminators of a text
NewlinePositions(text) == {i \in 1..Len(text) : text[i] = "\n"}

\* the position of the k-th line terminator; 0 for k = 0
NthNewline(text, k) ==
    IF k = 0 THEN 0
    ELSE CHOOSE i \in NewlinePositions(text) :
             Cardinality({j \in NewlinePositions(text) : j <= i}) = k

\* a line without its terminator: a "\r" right before the "\n" is dropped too
StripCr(line) ==
    IF line # <<>> /\ line[Len(line)] = "\r" THEN SubSeq(line, 1, Len(line) - 1) ELSE line

\* BufRead::lines over the bytes of a text: the lines between terminators,
\* and what follows the last terminator if it is not empty
BufLines(text) ==
    LET nl == Cardinality(NewlinePositions(text))
        terminated == [k \in 1..nl |->
                          StripCr(SubSeq(text, NthNewline(text, k - 1) + 1, NthNewline(text, k) - 1))]
        rest == SubSeq(text, NthNewline(text, nl) + 1, Len(text))
    IN  IF rest = <<>> THEN terminated ELSE terminated \o <<rest>>

\* from_reader on the bytes of a text
from_reader(text) == FromLines(BufLines(text))

(***************************************************************************)
(* math.rs and the computed accessors of types.rs.  The arithmetic of the  *)
(* accessors is followed on the dyadic numbers k / Grid, where f64         *)
(* arithmetic is exact; a result that is not such a number is OffGrid, and *)
(* so is everything computed from it.                                      *)
(***************************************************************************)
Grid == 2 ^ GridBits

\* a value the grid does not hold
OffGrid == 0 - 2000000

\* an f64 of the structures (in tenths) as a number of 1 / Grid
ToGrid(t) ==
    IF IsNaN(t) \/ t % 5 # 0 THEN OffGrid ELSE (t \div 5) * (Grid \div 2)

Sign(x) == IF x < 0 THEN 0 - 1 ELSE 1

\* f64 addition
GAdd(a, b) == IF a = OffGrid \/ b = OffGrid THEN OffGrid ELSE a + b

\* f64 subtraction
GSub(a, b) == IF a = OffGrid \/ b = OffGrid THEN OffGrid ELSE a - b

\* f64 multiplication
GMul(a, b) ==
    IF a = OffGrid \/ b = OffGrid THEN OffGrid
    ELSE IF (Abs(a) * Abs(b)) % Grid = 0
    THEN Sign(a) * Sign(b) * ((Abs(a) * Abs(b)) \div Grid)
    ELSE OffGrid

\* f64 division
GDiv(a, b) ==
    IF a = OffGrid \/ b = OffGrid \/ b = 0 THEN OffGrid
    ELSE IF (Abs(a) * Grid) % Abs(b) = 0
    THEN Sign(a) * Sign(b) * ((Abs(a) * Grid) \div Abs(b))
    ELSE OffGrid

\* f64::recip
GRecip(a) == GDiv(Grid, a)

\* f64::abs
GAbs(a) == IF a = OffGrid THEN OffGrid ELSE Abs(a)

\* f64::cbrt, where the cube root is on the grid
GCbrt(a) ==
    IF a = OffGrid THEN OffGrid
    ELSE IF \E r \in 0..(Abs(a) + Grid) : r * r * r = Abs(a) * Grid * Grid
    THEN Sign(a) * (CHOOSE r \in 0..(Abs(a) + Grid) : r * r * r = Abs(a) * Grid * Grid)
    ELSE OffGrid

\* [f64; 3], [[f64; 3]; 3] and Vec<[f64; 3]> on the grid
GridVec(v) == [i \in 1..3 |-> ToGrid(v[i])]

GridVecs(vs) == [k \in 1..Len(vs) |-> GridVec(vs[k])]

GridCoords(c) == [tag |-> c.tag, v |-> GridVecs(c.v)]

\* no component is OffGrid
OnGrid(vs) == \A k \in 1..Len(vs) : \A i \in 1..3 : vs[k][i] # OffGrid

\* math::cross_f64
cross_f64(a, b) ==
    <<GSub(GMul(a[2], b[3]), GMul(a[3], b[2])),
      GSub(GMul(a[3], b[1]), GMul(a[1], b[3])),
      GSub(GMul(a[1], b[2]), GMul(a[2], b[1]))>>

\* math::dot_f64
dot_f64(a, b) == GAdd(GAdd(GMul(a[1], b[1]), GMul(a[2], b[2])), GMul(a[3], b[3]))

\* math::det_f64
det_f64(m) == dot_f64(cross_f64(m[1], m[2]), m[3])

\* (i + k) % 3 on the indices 1..3
Cyc(i, k) == ((i - 1 + k) % 3) + 1

\* the cofactors of inv_f64
Cofactors(m) ==
    [r \in 1..3 |-> [c \in 1..3 |->
        GSub(GAdd(0, GMul(m[Cyc(r, 1)][Cyc(c, 1)], m[Cyc(r, 2)][Cyc(c, 2)])),
             GMul(m[Cyc(r, 1)][Cyc(c, 2)], m[Cyc(r, 2)][Cyc(c, 1)]))]]

\* an inverse that forgets to transpose the cofactors
inv_f64_untransposed(m) ==
    [r \in 1..3 |-> [c \in 1..3 |->
        GMul(GRecip(dot_f64(m[1], Cofactors(m)[1])), Cofactors(m)[r][c])]]

\* math::inv_f64
inv_f64(m) ==
    [r \in 1..3 |-> [c \in 1..3 |->
        GMul(GRecip(dot_f64(m[1], Cofactors(m)[1])), Cofactors(m)[c][r])]]

\* math::mul_3_33
mul_3_33(v, m) ==
    [j \in 1..3 |->
        GAdd(GAdd(GAdd(0, GMul(v[1], m[1][j])), GMul(v[2], m[2][j])), GMul(v[3], m[3][j]))]

\* math::mul_n3_33
mul_n3_33(vs, m) == [k \in 1..Len(vs) |-> mul_3_33(vs[k], m)]

\* math::scale_n3_mut, math::scale_n3, math::scale_33
scale_n3(vs, scale) == [k \in 1..Len(vs) |-> [i \in 1..3 |-> GMul(vs[k][i], scale)]]

scale_33(m, scale) == scale_n3(m, scale)

\* a to_tag that converts with the lattice in both directions
to_tag_no_inverse(self, lattice, tag) ==
    IF self.tag = tag THEN self.v ELSE mul_n3_33(self.v, lattice)

\* Coords::to_tag
to_tag(self, lattice, tag) ==
    IF self.tag = tag THEN self.v
    ELSE IF self.tag = "Frac" THEN mul_n3_33(self.v, lattice)
    ELSE mul_n3_33(self.v, inv_f64(lattice))

\* Poscar::unscaled_lattice
unscaled_lattice(self) == GridVecs(self.lattice_vectors)

\* Poscar::unscaled_determinant
unscaled_determinant(self) == det_f64(unscaled_lattice(self))

\* Poscar::scaled_volume
scaled_volume(self) ==
    IF self.scale.tag = "Volume" THEN ToGrid(self.scale.x)
    ELSE GMul(GAbs(unscaled_determinant(self)),
              GMul(GMul(ToGrid(self.scale.x), ToGrid(self.scale.x)), ToGrid(self.scale.x)))

\* an effective_scale_factor that takes the target volume for the factor
effective_scale_factor_raw(self) == ToGrid(self.scale.x)

\* Poscar::effective_scale_factor
effective_scale_factor(self) ==
    IF self.scale.tag = "Factor" THEN ToGrid(self.scale.x)
    ELSE GCbrt(GDiv(ToGrid(self.scale.x), GAbs(unscaled_determinant(self))))

\* Poscar::scaled_lattice
scaled_lattice(self) == scale_33(unscaled_lattice(self), effective_scale_factor(self))

\* Poscar::scaled_lattice_vectors
scaled_lattice_vectors(self) == scaled_lattice(self)

\* Poscar::unscaled_lattice_vectors
unscaled_lattice_vectors(self) == unscaled_lattice(self)

\* Poscar::scaled_cart_positions
scaled_cart_positions(self) ==
    IF self.positions.tag = "Cart"
    THEN scale_n3(GridVecs(self.positions.v), effective_scale_factor(self))
    ELSE mul_n3_33(GridVecs(self.positions.v), scaled_lattice(self))

\* Poscar::unscaled_cart_positions
unscaled_cart_positions(self) ==
    to_tag(GridCoords(self.positions), unscaled_lattice(self), "Cart")

\* Poscar::frac_positions
frac_positions(self) ==
    to_tag(GridCoords(self.positions), unscaled_lattice(self), "Frac")

\* Poscar::scaled_positions
scaled_positions(self) ==
    IF self.positions.tag = "Cart"
    THEN Cart(scaled_cart_positions(self))
    ELSE Frac(frac_positions(self))

\* Poscar::frac_velocities
frac_velocities(self) ==
    IF self.velocities.some
    THEN Some(to_tag(GridCoords(self.velocities.v), unscaled_lattice(self), "Frac"))
    ELSE None

\* a cart_velocities that converts with the scaled lattice
cart_velocities_scaled(self) ==
    IF self.velocities.some
    THEN Some(to_tag(GridCoords(self.velocities.v), scaled_lattice(self), "Cart"))
    ELSE None

\* Poscar::cart_velocities
cart_velocities(self) ==
    IF self.velocities.some
    THEN Some(to_tag(GridCoords(self.velocities.v), unscaled_lattice(self), "Cart"))
    ELSE None

(***************************************************************************)
(* builder.rs: the data of a Builder and build_raw.                        *)
(***************************************************************************)
\* Lattice::Missing, Positions::Missing
Missing == [k |-> "Missing"]

\* Counts::Auto
Auto == [k |-> "Auto"]

\* Symbols::None, Velocities::None, Dynamics::None
NotGiven == [k |-> "None"]

\* Lattice::This
This(x) == [k |-> "This", v |-> x]

\* Symbols::These, Counts::These, Positions::These, Velocities::These,
\* Dynamics::These
These(x) == [k |-> "These", v |-> x]

\* Positions::Zero, Velocities::Zero
Zero(tag) == [k |-> "Zero", tag |-> tag]

\* const EYE, in tenths
EYE == <<(<<10, 0, 0>>), (<<0, 10, 0>>), (<<0, 0, 10>>)>>

\* struct Data
Data(comment, scale, lattice_vectors, group_symbols, group_counts, positions, velocities, dynamics) ==
    [comment |-> comment, scale |-> scale, lattice_vectors |-> lattice_vectors,
     group_symbols |-> group_symbols, group_counts |-> group_counts,
     positions |-> positions, velocities |-> velocities, dynamics |-> dynamics]

\* "POSCAR File"
DefaultComment == <<"P", "O", "S", "C", "A", "R", " ", "F", "i", "l", "e">>

\* Builder::default
BuilderDefault ==
    Data(DefaultComment, Factor(10), Missing, NotGiven, Auto, Missing, NotGiven, NotGiven)

\* Coords::of_tag
of_tag(tag, v) == IF tag = "Cart" THEN Cart(v) ELSE Frac(v)

\* vec![[0f64; 3]; n]
Zeros(n) == [i \in 1..n |-> <<0, 0, 0>>]

\* a build_raw that rejects positions whose number is not the sum of the counts
BuildRawChecked(data) ==
    IF data.lattice_vectors = Missing
    THEN Panic("missing required field 'lattice_vectors'")
    ELSE IF data.positions = Missing
    THEN Panic("missing required field 'positions'")
    ELSE IF data.group_counts = Auto /\ data.positions.k = "Zero"
    THEN Panic("cannot determine number of atoms")
    ELSE IF data.group_counts # Auto /\ data.positions.k = "These"
            /\ Len(data.positions.v.v) # SumSeq(data.group_counts.v)
    THEN Panic("wrong number of positions")
    ELSE Ok(RawPoscar(data.comment, data.scale, data.lattice_vectors.v, None,
                      IF data.group_counts = Auto THEN <<Len(data.positions.v.v)>>
                      ELSE data.group_counts.v,
                      IF data.positions.k = "Zero"
                      THEN of_tag(data.positions.tag, Zeros(SumSeq(data.group_counts.v)))
                      ELSE data.positions.v,
                      None, None))

\* a build_raw whose Zeroed velocities are as many as the positions
BuildRawByPositions(data) ==
    LET r == BuildRawChecked(data)
        n == IF data.group_counts = Auto \/ data.positions.k = "These"
             THEN Len(data.positions.v.v)
             ELSE SumSeq(data.group_counts.v)
    IN  IF data.lattice_vectors = Missing \/ data.positions = Missing
           \/ (data.group_counts = Auto /\ data.positions.k = "Zero")
        THEN r
        ELSE Ok(RawPoscar(data.comment, data.scale, data.lattice_vectors.v,
                          IF data.group_symbols = NotGiven THEN None ELSE Some(data.group_symbols.v),
                          IF data.group_counts = Auto THEN <<n>> ELSE data.group_counts.v,
                          IF data.positions.k = "Zero" THEN of_tag(data.positions.tag, Zeros(n))
                          ELSE data.positions.v,
                          IF data.velocities = NotGiven THEN None
                          ELSE IF data.velocities.k = "Zero"
                               THEN Some(of_tag(data.velocities.tag, Zeros(n)))
                          ELSE Some(data.velocities.v),
                          IF data.dynamics = NotGiven THEN None ELSE Some(data.dynamics.v)))

\* Builder::build_raw on the data taken out of the builder
BuildRaw(data) ==
    LET group_counts ==
            IF data.group_counts = Auto
            THEN <<Len(data.positions.v.v)>>
            ELSE data.group_counts.v
        positions ==
            IF data.positions.k = "Zero"
            THEN of_tag(data.positions.tag, Zeros(SumSeq(group_counts)))
            ELSE data.positions.v
        n_atom == SumSeq(group_counts)
        group_symbols ==
            IF data.group_symbols = NotGiven THEN None ELSE Some(data.group_symbols.v)
        velocities ==
            IF data.velocities = NotGiven THEN None
            ELSE IF data.velocities.k = "Zero"
                 THEN Some(of_tag(data.velocities.tag, Zeros(n_atom)))
            ELSE Some(data.velocities.v)
        dynamics ==
            IF data.dynamics = NotGiven THEN None ELSE Some(data.dynamics.v)
    IN  IF data.lattice_vectors = Missing
        THEN Panic("missing required field 'lattice_vectors'")
        ELSE IF data.positions = Missing
        THEN Panic("missing required field 'positions'")
        ELSE IF data.positions.k = "Zero" /\ data.group_counts = Auto
        THEN Panic("cannot determine number of atoms")
        ELSE IF SumPanics(group_counts) THEN Panic(AddOverflow)
        ELSE Ok(RawPoscar(data.comment, data.scale, data.lattice_vectors.v, group_symbols,
                          group_counts, positions, velocities, dynamics))

\* const ALREADY_CONSUMED_MSG
ALREADY_CONSUMED_MSG ==
    "Attempted to use a Builder that has already been consumed! You should clone it before calling the build method."

\* an as_mut that hands out the default data of a poisoned Builder
as_mut_lenient(self) == Ok(IF self.some THEN self.v ELSE BuilderDefault)

\* Builder::as_mut: panics on poison
as_mut(self) == IF self.some THEN Ok(self.v) ELSE Panic(ALREADY_CONSUMED_MSG)

\* Builder::take: the data, or the panic on poison; the caller of take is
\* left with the poison value
take(self) == IF self.some THEN Ok(self.v) ELSE Panic(ALREADY_CONSUMED_MSG)

\* the unit struct Zeroed
Zeroed == [k |-> "Zeroed"]

\* <Coords<Vs> as PositionsArgument>::_get
PositionsGet(vs) == These(vs)

\* <Coords<Zeroed> as PositionsArgument>::_get
PositionsGetZeroed(vs) == Zero(vs.tag)

\* <Coords<Vs> as VelocitiesArgument>::_get
VelocitiesGet(vs) == These(vs)

\* <Coords<Zeroed> as VelocitiesArgument>::_get
VelocitiesGetZeroed(vs) == Zero(vs.tag)

(***************************************************************************)
(* The values the operations are called with.                              *)
(***************************************************************************)
\* the i-th coordinate triple of the enumerated structures, in tenths
PosVec(i) == <<0, 5 * i, 0 - (10 * i)>>

\* k coordinate triples
VecsOfLen(k) == [i \in 1..k |-> PosVec(i)]

\* k triples of selective-dynamics flags
FlagsOfLen(k) == [i \in 1..k |-> <<TRUE, FALSE, i % 2 = 0>>]

\* a comment with a carriage return inside: "a\rb"
CrComment == <<"a", "\r", "b">>

\* the scale lines a caller assigns
EditScales == {Volume(25), Factor(0)}

\* the symbol lists a caller assigns
EditSymbols == {None, Some(<<(<<"C">>)>>), Some(<<(<<"C">>), (<<"1", "x">>)>>)}

\* the count lists a caller assigns: no group, one group, two groups
EditCounts ==
    {<<>>} \cup {<<n>> : n \in 1..MaxAtoms} \cup {<<1, n - 1>> : n \in 2..MaxAtoms}

\* the coordinate lists a caller assigns: one of each length, fractional
\* for the odd lengths and Cartesian for the even ones
EditCoords ==
    {of_tag(IF k % 2 = 1 THEN "Frac" ELSE "Cart", VecsOfLen(k)) : k \in 1..MaxAtoms}

\* the velocities a caller assigns
EditVelocities == {None} \cup {Some(c) : c \in EditCoords}

\* the dynamics a caller assigns
EditDynamics == {None} \cup {Some(FlagsOfLen(k)) : k \in 1..MaxAtoms}

\* the data a Builder holds when build or build_raw is called
BuilderInputs ==
    {[BuilderDefault EXCEPT !.lattice_vectors = l, !.positions = p,
                            !.group_counts = c, !.velocities = v] :
        l \in {Missing, This(EYE)},
        p \in {Missing, Zero("Frac")} \cup {These(x) : x \in EditCoords},
        c \in {Auto, These(<<MaxAtoms>>)},
        v \in {NotGiven, Zero("Cart")}}

\* the format requests: "{}", and each flag the formatter looks at
FormatRequests ==
    {DefaultFormat,
     FormatSpec(Some(MaxWidth), None, FALSE, FALSE),
     FormatSpec(None, Some(0), FALSE, FALSE),
     FormatSpec(None, Some(2), FALSE, FALSE),
     FormatSpec(None, None, TRUE, FALSE),
     FormatSpec(None, None, FALSE, TRUE),
     FormatSpec(Some(MaxWidth), Some(1), TRUE, FALSE)}

\* a file: every line followed by a line terminator
File(lines) == Concat([i \in 1..Len(lines) |-> lines[i] \o <<"\n">>])

\* the three lines of the identity lattice
EyeLines == <<(<<"1", " ", "0", " ", "0">>), (<<"0", " ", "1", " ", "0">>), (<<"0", " ", "0", " ", "1">>)>>

\* the files a caller of the lifecycle reads: one well formed, one that
\* ends after the lattice
LifecycleInputs ==
    {File(<<DefaultComment, (<<"1">>)>> \o EyeLines
          \o <<(<<"1">>), (<<"D">>), (<<"0", " ", "0", ".", "5", " ", "-", "1">>)>>),
     File(<<DefaultComment, (<<"1">>)>> \o EyeLines)}

\* the comments of the structures validate is called on: "c", "a\rb", "a\nb"
ValidateComments == {(<<"c">>), CrComment, (<<"a", "\n", "b">>)}

\* the scale lines validate is called on: both variants, with a negative, a
\* zero, a positive and a NaN payload
ValidateScales ==
    {Factor(x) : x \in {0 - 10, 0, 25, NaN}} \cup {Volume(x) : x \in {0 - 10, 0, 25, NaN}}

\* the symbol lists validate is called on: absent; "C"; "C","N"; "C","1x";
\* "","N a"
ValidateSymbols ==
    {None,
     Some(<<(<<"C">>)>>),
     Some(<<(<<"C">>), (<<"N">>)>>),
     Some(<<(<<"C">>), (<<"1", "x">>)>>),
     Some(<<(<<>>), (<<"N", " ", "a">>)>>)}

\* the count lists validate is called on
ValidateCounts == EditCounts \cup {(<<0>>), (<<0, 0>>)}

\* the raw structures validate is called on
ValidateInputs ==
    {RawPoscar(c, s, EYE, sy, cn, Frac(VecsOfLen(p)), v, d) :
        c \in ValidateComments, s \in ValidateScales, sy \in ValidateSymbols,
        cn \in ValidateCounts, p \in 0..MaxAtoms,
        v \in EditVelocities, d \in EditDynamics}

\* the first lines of the files read: "c", "a\rb"
CommentLines ==
    {(<<"c">>),
     (<<"a", "\r", "b">>)}

\* the second lines of the files read
ScaleLines ==
    {(<<"1">>),
     (<<"-", "2", ".", "5">>),
     (<<"0">>),
     (<<"-", "0">>),
     (<<"N", "a", "N">>),
     (<<"1", " ", "2">>),
     (<<"1", " ", "x">>),
     (<<" ", "3", ".", "7", "\t", "#", " ", "c">>),
     (<<"0", " ", "1">>),
     (<<"N", "a", "N", " ", "1">>),
     (<<"-", "1", " ", "-", "0">>),
     (<<"x">>),
     (<<>>),
     (<<"+", "2">>)}

\* the lines read after the lattice
SymbolOrCountLines ==
    {(<<"C">>),
     (<<"C", " ", "N">>),
     (<<"C", " ", "1", "x">>),
     (<<"1">>),
     (<<"2", " ", "x">>),
     (<<"1", " ", "1">>),
     (<<"0">>),
     (<<>>),
     (<<" ", "\t">>),
     (<<"\f">>),
     (<<"+", "1">>),
     (<<"1", "x">>)}

\* the lines that follow the line read after the lattice
FollowingLines ==
    {(<<"1">>),
     (<<"1", " ", "1">>),
     (<<"2", " ", "#", " ", "x">>),
     (<<"+", "1">>),
     (<<"0">>),
     (<<"D">>),
     (<<"S", "e", "l", "e", "c", "t", "i", "v", "e">>)}

\* the lines the files read end with
Tails ==
    {<<>>,
     <<(<<"0", " ", "0", ".", "5", " ", "-", "1">>)>>,
     <<(<<"0", " ", "0", ".", "5", " ", "-", "1">>), (<<"0", " ", "1", " ", "-", "2">>)>>,
     <<(<<"D", "i", "r", "e", "c", "t">>), (<<"0", " ", "0", ".", "5", " ", "-", "1">>)>>,
     <<(<<"C", "a", "r", "t", "e", "s", "i", "a", "n">>), (<<"0", " ", "0", ".", "5", " ", "-", "1">>), (<<"0", " ", "1", " ", "-", "2">>), (<<>>), (<<" ", "\t">>)>>,
     <<(<<"C", "a", "r", "t">>), (<<"0", " ", "0", ".", "5", " ", "-", "1", " ", "T", " ", "F", " ", "T">>)>>,
     <<(<<"D", "i", "r", "e", "c", "t">>), (<<"0", " ", "0", ".", "5", " ", "-", "1">>), (<<>>), (<<"0", " ", "0", " ", "0">>)>>}

\* the ends of the files whose first two lines vary
ShortTails ==
    {<<(<<"1">>), (<<"D">>), (<<"0", " ", "0", ".", "5", " ", "-", "1">>)>>,
     <<(<<"C">>), (<<"1">>), (<<"D", "i", "r", "e", "c", "t">>), (<<"0", " ", "0", ".", "5", " ", "-", "1">>)>>,
     <<(<<"C", " ", "N">>), (<<"x">>)>>}

\* the lines that switch selective dynamics on
SelectiveLines ==
    {(<<"s">>),
     (<<"S", "e", "l">>)}

\* the lines that name the coordinate system: with and without a leading
\* blank, empty, and with other first characters
CoordLines ==
    {(<<>>),
     (<<" ", "C">>),
     (<<"\t", "c">>),
     (<<"c">>),
     (<<"K">>),
     (<<"k", "a">>),
     (<<"C", "a", "r", "t">>),
     (<<"D">>),
     (<<"s">>)}

\* the lines of the position block: three reals, with flags, with more
\* words, and with a missing or malformed word
PositionLines ==
    {(<<"0", " ", "0", ".", "5", " ", "-", "1">>),
     (<<"1", " ", "0", " ", "0", " ", "T", " ", ".", "f", " ", "t", "x">>),
     (<<"1", " ", "1", " ", "1", " ", "F", " ", "F", " ", ".", "T", ".", " ", "#", " ", "x">>),
     (<<"0", " ", "0", ".", "5">>),
     (<<"0", " ", "x", " ", "1">>),
     (<<"0", " ", "0", " ", "0", " ", "T", " ", "F">>),
     (<<"0", " ", "0", " ", "0", " ", "T", " ", "F", " ", "X">>)}

\* the lines that follow the last data line
RemainingLines ==
    {(<<>>),
     (<<" ", "\t">>),
     (<<"x">>),
     (<<"\f">>),
     (<<" ", "0", " ", "0", " ", "0">>)}

\* the sequences of at most n elements of a set
SeqsUpTo(S, n) == UNION {[1..k -> S] : k \in 0..n}

\* the files whose flag lines vary: one atom, with and without the line for
\* selective dynamics, and files that end at a flag line
FlagFiles ==
    {File(<<(<<"c">>), (<<"1">>)>> \o EyeLines \o <<(<<"1">>)>> \o s \o <<c, p>>) :
        s \in {<<>>} \cup {<<l>> : l \in SelectiveLines},
        c \in CoordLines,
        p \in {(<<"0", " ", "0", ".", "5", " ", "-", "1">>), (<<"1", " ", "0", " ", "0", " ", "T", " ", ".", "f", " ", "t", "x">>)}}
    \cup {File(<<(<<"c">>), (<<"1">>)>> \o EyeLines \o <<(<<"1">>), l>>) : l \in SelectiveLines}

\* the files whose position block varies: up to MaxAtoms atoms and up to
\* MaxAtoms lines after the flag lines
PositionFiles ==
    {File(<<(<<"c">>), (<<"1">>)>> \o EyeLines \o <<NatToChars(n)>> \o s \o <<(<<"D">>)>> \o ps) :
        n \in 1..MaxAtoms,
        s \in {<<>>, <<(<<"S">>)>>},
        ps \in SeqsUpTo(PositionLines, MaxAtoms)}

\* the files whose end varies: a complete file, then up to MaxTrailing lines
TrailingFiles ==
    {File(<<c, (<<"1">>)>> \o EyeLines
          \o <<(<<"1">>), (<<"D">>), (<<"0", " ", "0", ".", "5", " ", "-", "1">>)>> \o r) :
        c \in CommentLines, r \in SeqsUpTo(RemainingLines, MaxTrailing)}

\* the lines that open a velocity block: empty, Direct, Cartesian, k
VelocityHeaders ==
    {(<<>>),
     (<<"D", "i", "r", "e", "c", "t">>),
     (<<"C", "a", "r", "t", "e", "s", "i", "a", "n">>),
     (<<"k">>)}

\* the files with a velocity block: n atoms, n position lines, a header and
\* n velocity lines
VelocityFiles ==
    {File(<<(<<"c">>), (<<"1">>)>> \o EyeLines \o <<NatToChars(n), (<<"D">>)>>
          \o [i \in 1..n |-> <<"0", " ", "0", ".", "5", " ", "-", "1">>]
          \o <<h>>
          \o [i \in 1..n |-> <<"0", " ", "1", " ", "-", "2", ".", "5">>]) :
        n \in 1..MaxAtoms, h \in VelocityHeaders}

\* the lines made of blanks and tabs only
BlankLines == {(<<>>), (<<" ">>), (<<"\t", " ">>)}

\* the validated structures whose text gets blank lines appended: 1 to
\* MaxAtoms atoms, with and without symbols, dynamics and fractional
\* velocities
FormattedStructures ==
    {RawPoscar(<<"c">>, Factor(10), EYE, sy, <<n>>, Cart(VecsOfLen(n)),
               IF v THEN Some(Frac(VecsOfLen(n))) ELSE None,
               IF d THEN Some(FlagsOfLen(n)) ELSE None) :
        n \in 1..MaxAtoms,
        sy \in {None, Some(<<(<<"C">>)>>)},
        v \in BOOLEAN,
        d \in BOOLEAN}

\* their texts in the default output format
FormattedFiles == {Display(DefaultFormat, p) : p \in FormattedStructures}

\* these texts followed by up to MaxAppended blank lines
AppendedFiles ==
    {t \o File(b) : t \in FormattedFiles, b \in SeqsUpTo(BlankLines, MaxAppended)}

\* the tokens handed to the parser of logicals
LogicalTokens == SeqsUpTo({".", "t", "T", "f", "F", "x", "1"}, MaxToken)

\* the lines handed to the tokenizer
TokenizerLines == SeqsUpTo({" ", "\t", "\r", "\n", "\f", "a"}, MaxLine)

\* a lattice that is not the identity: the m of test_lattice, in tenths
TestLattice == <<(<<10, 20, 30>>), (<<40, 50, 60>>), (<<90, 80, 70>>)>>

\* the arguments the setters of a Builder are called with
BuilderComments == {CrComment}

BuilderScales == {Volume(25)}

BuilderLattices == {TestLattice}

BuilderSymbols == {<<(<<"C">>)>>}

BuilderCounts == {<<>>, <<MaxAtoms>>, <<1, 1>>}

BuilderPositions == {Frac(VecsOfLen(1)), Cart(VecsOfLen(MaxAtoms))}

BuilderZeroedPositions == {Frac(Zeroed)}

BuilderVelocities == {Frac(VecsOfLen(1))}

BuilderZeroedVelocities == {Cart(Zeroed)}

BuilderDynamics == {FlagsOfLen(1)}

\* the path of the file from_path reads: "POSCAR"
PoscarPath == <<"P", "O", "S", "C", "A", "R">>

\* the files read: every first and second line with a few ends; every
\* combination of the later lines under two scale lines; files that end early
InputFiles ==
    {File(<<c, s>> \o EyeLines \o t) : c \in CommentLines, s \in ScaleLines, t \in ShortTails}
    \cup {File(<<(<<"c">>), s>> \o EyeLines \o <<l, n>> \o t) :
            s \in {(<<"1">>), (<<"-", "2", ".", "5">>)},
            l \in SymbolOrCountLines, n \in FollowingLines, t \in Tails}
    \cup {File(<<(<<"c">>), (<<"1">>)>> \o EyeLines \o <<l>>) : l \in SymbolOrCountLines}
    \cup {<<>>, File(<<(<<"c">>)>>), File(<<(<<"c">>), (<<"1">>)>>),
          File(<<(<<"c">>), (<<"1">>)>> \o EyeLines)}
    \cup FlagFiles \cup PositionFiles \cup TrailingFiles \cup VelocityFiles

\* two well-formed files, line by line: counts only; symbols and flags
ReadBases ==
    {<<(<<"c">>), (<<"1">>)>> \o EyeLines
        \o <<(<<"1">>), (<<"D">>), (<<"0", " ", "0", ".", "5", " ", "-", "1">>)>>,
     <<(<<"c">>), (<<"1">>)>> \o EyeLines
        \o <<(<<"C">>), (<<"1">>), (<<"S">>), (<<"D">>),
             (<<"0", " ", "0", ".", "5", " ", "-", "1", " ", "T", " ", "F", " ", "T">>)>>}

\* a line the line source fails to read
UnreadableLine == <<"x", InvalidByte>>

\* the lines that follow the last position line of a file read from a
\* source that may fail
ReadRemainingLines == {(<<>>), (<<" ", "\t">>), (<<"x">>), (<<InvalidByte>>), UnreadableLine}

\* the files read from a source that may fail: a read error at each line of
\* a well-formed file, and every short sequence of lines after its end
ReadFiles ==
    UNION {{File([b EXCEPT ![k] = UnreadableLine]) : k \in 1..Len(b)} : b \in ReadBases}
    \cup {File(b \o r) : b \in ReadBases, r \in SeqsUpTo(ReadRemainingLines, MaxTrailing)}

\* half of the number of values of a machine word
HalfWord == (UsizeMax + 1) \div 2

\* count lists around the end of the machine word: three whose sum fits it,
\* and lists whose sum is 1, 2, 0, 1 and 2 more than a multiple of the
\* number of its values
WordCounts ==
    {<<1>>, <<2>>, <<1, 1>>,
     <<UsizeMax, 2>>, <<UsizeMax, 3>>, <<HalfWord, HalfWord>>, <<HalfWord, HalfWord, 1>>,
     <<UsizeMax, UsizeMax, 4>>}

\* the numbers of position lines, of positions and of velocities supplied
\* with them
WordLengths == {1, 2}

\* a raw structure of k positions and k velocities under these counts
WordRaw(cn, k) ==
    RawPoscar(<<"c">>, Factor(10), EYE, None, cn, Frac(VecsOfLen(k)),
              Some(Cart(VecsOfLen(k))), None)

\* the counts line of a file
CountsLine(cn) == Join(<<" ">>, [i \in 1..Len(cn) |-> NatToChars(cn[i])])

\* a file of k position lines under these counts
WordFile(cn, k) ==
    File(<<(<<"c">>), (<<"1">>)>> \o EyeLines \o <<CountsLine(cn), (<<"D">>)>>
         \o [i \in 1..k |-> <<"0", " ", "0", ".", "5", " ", "-", "1">>])

\* the data of a Builder given these counts, and either Zeroed positions and
\* velocities or k of each
WordData(cn, k, zeroed) ==
    Data(<<"c">>, Factor(10), This(EYE), NotGiven, These(cn),
         IF zeroed THEN Zero("Frac") ELSE These(Frac(VecsOfLen(k))),
         Zero("Cart"), NotGiven)

\* the count lists of the structures whose sites are listed: up to three
\* groups, a group may be empty
SiteCounts ==
    {cn \in UNION {[1..k -> 0..(MaxAtoms + 1)] : k \in 1..3} : SumSeq(cn) \in 1..(MaxAtoms + 1)}

\* the symbols of three groups
SiteSymbols == <<(<<"X", "e">>), (<<"C">>), (<<"B">>)>>

\* the raw structures whose sites are listed: with and without symbols
SiteStructures ==
    {RawPoscar(DefaultComment, Factor(10), EYE,
               IF sy THEN Some(SubSeq(SiteSymbols, 1, Len(cn))) ELSE None,
               cn, Frac(Zeros(SumSeq(cn))), None, None) :
        cn \in SiteCounts, sy \in BOOLEAN}

\* util::test_matrices::EXAMPLE_UNIMODULAR, determinant +1, in tenths
EXAMPLE_UNIMODULAR == <<(<<20, 0 - 10, 20>>), (<<0 - 10, 30, 0 - 30>>), (<<10, 10, 0>>)>>

\* UNSCALED_LATTICE of accessor_tests::smoke_test, determinant -8, in tenths
UNSCALED_LATTICE == <<(<<0 - 40, 20, 0 - 40>>), (<<20, 0 - 60, 60>>), (<<0 - 20, 0 - 20, 0>>)>>

\* the lattices of the structures the accessors are called on: integer
\* valued, with determinants 1, 1, -1, 2 and -8
AccessorLattices ==
    {EYE, EXAMPLE_UNIMODULAR,
     [r \in 1..3 |-> [c \in 1..3 |-> 0 - EXAMPLE_UNIMODULAR[r][c]]],
     <<(<<20, 10, 0>>), (<<0, 10, 0>>), (<<0, 0, 10>>)>>,
     UNSCALED_LATTICE}

\* the determinant of an integer valued lattice given in tenths, as an integer
IntDet(m) ==
    LET e(r, c) == m[r][c] \div 10
    IN  e(1, 1) * (e(2, 2) * e(3, 3) - e(2, 3) * e(3, 2))
        - e(1, 2) * (e(2, 1) * e(3, 3) - e(2, 3) * e(3, 1))
        + e(1, 3) * (e(2, 1) * e(3, 2) - e(2, 2) * e(3, 1))

\* the scale factors: 1, 2 and 0.5, in tenths
AccessorFactors == {10, 20, 5}

\* |d| * f^3 in tenths, for the factor f in tenths
VolumeOf(m, f) == (Abs(IntDet(m)) * f * f * f) \div 100

\* the scale lines for a lattice: the factors, and the volumes |d| * f^3
\* that are a whole number of halves
AccessorScales(m) ==
    {Factor(f) : f \in AccessorFactors}
    \cup {Volume(VolumeOf(m, f)) :
            f \in {g \in AccessorFactors :
                     /\ (Abs(IntDet(m)) * g * g * g) % 100 = 0
                     /\ VolumeOf(m, g) % 5 = 0}}

\* the i-th coordinate triple: (0.5 i, -2.5 i, 3)
AccessorVec(i) == <<5 * i, 0 - (25 * i), 30>>

\* coordinates of k sites, under either tag
AccessorCoords(k) == {of_tag(t, [i \in 1..k |-> AccessorVec(i)]) : t \in {"Frac", "Cart"}}

\* the raw structures the accessors are called on
AccessorStructures ==
    UNION {UNION {{RawPoscar(DefaultComment, sc, m, None, <<k>>, ps, vs, None) :
                      sc \in AccessorScales(m), ps \in AccessorCoords(k),
                      vs \in {None} \cup {Some(c) : c \in AccessorCoords(k)}} :
                  k \in 1..MaxAtoms} :
           m \in AccessorLattices}

(***************************************************************************)
(* The state: what a caller holds.  A caller may hold any number of        *)
(* structures; they share nothing, so the model follows one of them.       *)
(***************************************************************************)
VARIABLES
    raw,     \* Some(the RawPoscar in the caller's hands), or None
    poscar,  \* Some(the validated Poscar in the caller's hands), or None
    text,    \* Some(the text in the caller's hands), or None
    shown,   \* Some(the flags and the Poscar text was formatted from), or None
    out,     \* the last operation and what it returned
    builder, \* Some(the field of the Builder in the caller's hands), or None:
             \* the field is Some(Data), or None once the Builder is poisoned
    iter     \* Some(the site_symbols iterator in the caller's hands), or None

vars == <<raw, poscar, text, shown, out, builder, iter, overflow_checks>>

\* nothing in hand
InitIdle ==
    /\ raw = None
    /\ poscar = None
    /\ text = None
    /\ shown = None
    /\ out = [op |-> "none"]
    /\ overflow_checks = FALSE
    /\ builder = None
    /\ iter = None

\* Builder::build_raw
DoBuildRaw(data) ==
    /\ raw = None /\ poscar = None /\ text = None
    /\ raw' = IF BuildRaw(data).ok THEN Some(BuildRaw(data).v) ELSE None
    /\ out' = [op |-> "build_raw", res |-> BuildRaw(data)]
    /\ UNCHANGED <<poscar, text, shown, builder, iter, overflow_checks>>

\* Builder::build
DoBuild(data) ==
    LET r == BuildRaw(data)
        res == IF r.ok THEN Validate(r.v) ELSE r
    IN  /\ raw = None /\ poscar = None /\ text = None
        /\ poscar' = IF res.ok THEN Some(res.v) ELSE None
        /\ out' = [op |-> "build", res |-> res]
        /\ UNCHANGED <<raw, text, shown, builder, iter, overflow_checks>>

\* an assignment to the public field comment of a RawPoscar
SetComment(c) ==
    /\ raw.some
    /\ raw' = Some([raw.v EXCEPT !.comment = c])
    /\ out' = [op |-> "edit"]
    /\ UNCHANGED <<poscar, text, shown, builder, iter, overflow_checks>>

\* an assignment to the public field scale
SetScale(x) ==
    /\ raw.some
    /\ raw' = Some([raw.v EXCEPT !.scale = x])
    /\ out' = [op |-> "edit"]
    /\ UNCHANGED <<poscar, text, shown, builder, iter, overflow_checks>>

\* an assignment to the public field group_symbols
SetGroupSymbols(x) ==
    /\ raw.some
    /\ raw' = Some([raw.v EXCEPT !.group_symbols = x])
    /\ out' = [op |-> "edit"]
    /\ UNCHANGED <<poscar, text, shown, builder, iter, overflow_checks>>

\* an assignment to the public field group_counts
SetGroupCounts(x) ==
    /\ raw.some
    /\ raw' = Some([raw.v EXCEPT !.group_counts = x])
    /\ out' = [op |-> "edit"]
    /\ UNCHANGED <<poscar, text, shown, builder, iter, overflow_checks>>

\* an assignment to the public field positions
SetPositions(x) ==
    /\ raw.some
    /\ raw' = Some([raw.v EXCEPT !.positions = x])
    /\ out' = [op |-> "edit"]
    /\ UNCHANGED <<poscar, text, shown, builder, iter, overflow_checks>>

\* an assignment to the public field velocities
SetVelocities(x) ==
    /\ raw.some
    /\ raw' = Some([raw.v EXCEPT !.velocities = x])
    /\ out' = [op |-> "edit"]
    /\ UNCHANGED <<poscar, text, shown, builder, iter, overflow_checks>>

\* an assignment to the public field dynamics
SetDynamics(x) ==
    /\ raw.some
    /\ raw' = Some([raw.v EXCEPT !.dynamics = x])
    /\ out' = [op |-> "edit"]
    /\ UNCHANGED <<poscar, text, shown, builder, iter, overflow_checks>>

\* a validate that hands the raw structure back when it fails
DoValidateKeeping ==
    /\ raw.some
    /\ raw' = IF Validate(raw.v).ok THEN None ELSE raw
    /\ poscar' = IF Validate(raw.v).ok THEN Some(Validate(raw.v).v) ELSE None
    /\ out' = [op |-> "validate", arg |-> raw.v, res |-> Validate(raw.v)]
    /\ UNCHANGED <<text, shown, builder, iter, overflow_checks>>

\* RawPoscar::validate: consumes the raw structure
DoValidate ==
    /\ raw.some
    /\ raw' = None
    /\ poscar' = IF Validate(raw.v).ok THEN Some(Validate(raw.v).v) ELSE None
    /\ out' = [op |-> "validate", arg |-> raw.v, res |-> Validate(raw.v)]
    /\ UNCHANGED <<text, shown, builder, iter, overflow_checks>>

\* raw.clone().validate(), the result only looked at: the clone is consumed,
\* the raw structure stays in hand
DoValidateClone ==
    /\ raw.some
    /\ out' = [op |-> "validate_clone", arg |-> raw.v, res |-> Validate(raw.v)]
    /\ UNCHANGED <<raw, poscar, text, shown, builder, iter, overflow_checks>>

\* Poscar::into_raw: consumes the validated structure
DoIntoRaw ==
    /\ poscar.some /\ text = None
    /\ raw' = Some(poscar.v)
    /\ poscar' = None
    /\ out' = [op |-> "into_raw"]
    /\ UNCHANGED <<text, shown, builder, iter, overflow_checks>>

\* format!(.., poscar) under the flags f
DoDisplay(f) ==
    /\ poscar.some /\ text = None
    /\ IF DisplayPanics(poscar.v)
       THEN /\ out' = [op |-> "display", panicked |-> TRUE]
            /\ UNCHANGED <<text, shown>>
       ELSE /\ text' = Some(Display(f, poscar.v))
            /\ shown' = Some([f |-> f, poscar |-> poscar.v])
            /\ out' = [op |-> "display", panicked |-> FALSE]
    /\ UNCHANGED <<raw, poscar, builder, iter, overflow_checks>>

\* Poscar::from_reader on the text in hand
DoParse ==
    LET res == from_reader(text.v)
    IN  /\ text.some
        /\ out' = [op |-> "parse", input |-> text.v, lines |-> BufLines(text.v),
                   shown |-> shown, res |-> res, path |-> None]
        /\ poscar' = IF res.st = "ok" THEN Some(res.poscar) ELSE poscar
        /\ text' = None
        /\ shown' = None
        /\ UNCHANGED <<raw, builder, iter, overflow_checks>>

\* vasp_poscar::from_path on a file that holds the text in hand: the parser
\* is handed the path, and copies it into every error
DoFromPath(path) ==
    LET res == from_reader(text.v)
    IN  /\ text.some
        /\ out' = [op |-> "parse", input |-> text.v, lines |-> BufLines(text.v),
                   shown |-> shown, res |-> res, path |-> Some(path)]
        /\ poscar' = IF res.st = "ok" THEN Some(res.poscar) ELSE poscar
        /\ text' = None
        /\ shown' = None
        /\ UNCHANGED <<raw, builder, iter, overflow_checks>>

\* format!("{}", e) on the error the last parse returned
DoErrorDisplay ==
    /\ out.op = "parse" /\ out.res.st = "err"
    /\ out' = [op |-> "error", input |-> out.input, path |-> out.path, err |-> out.res.err,
               msg |-> ErrorFmt(out.path, out.res.err)]
    /\ UNCHANGED <<raw, poscar, text, shown, builder, iter, overflow_checks>>

\* the caller obtains the bytes of a file
DoInput(t) ==
    /\ raw = None /\ poscar = None /\ text = None
    /\ text' = Some(t)
    /\ shown' = None
    /\ out' = [op |-> "input"]
    /\ UNCHANGED <<raw, poscar, builder, iter, overflow_checks>>

\* <Logical as FromStr>::from_str on the string in hand
DoParseLogical ==
    /\ text.some
    /\ out' = [op |-> "logical", input |-> text.v,
               res |-> IF ParseLogical(text.v).some
                       THEN Ok(ParseLogical(text.v).v)
                       ELSE Err([kind |-> InvalidLogical, input |-> text.v])]
    /\ text' = None
    /\ UNCHANGED <<raw, poscar, shown, builder, iter, overflow_checks>>

\* Spanned::words on the string in hand, as a Spanned of this line and column
DoWords(line, col) ==
    /\ text.some
    /\ out' = [op |-> "words", sp |-> Spanned(line, col, text.v),
               panicked |-> WordsPanics(Spanned(line, col, text.v)),
               res |-> Words(Spanned(line, col, text.v))]
    /\ text' = None
    /\ UNCHANGED <<raw, poscar, shown, builder, iter, overflow_checks>>

\* a setter of the Builder in hand: self.as_mut().field = value; self
\* (ty is the type of the argument)
Setter(op, ty, arg, field, value) ==
    LET data == as_mut(builder.v)
    IN  /\ builder.some
        /\ builder' = IF data.ok THEN Some(Some([data.v EXCEPT ![field] = value])) ELSE builder
        /\ out' = [op |-> op, ty |-> ty, arg |-> arg, poisoned |-> ~builder.v.some,
                   res |-> IF data.ok THEN Ok("self") ELSE data]
        /\ UNCHANGED <<raw, poscar, text, shown, iter, overflow_checks>>

\* Builder::comment
Builder_comment(s) == Setter("comment", "String", s, "comment", s)

\* Builder::scale
Builder_scale(s) == Setter("scale", "ScaleLine", s, "scale", s)

\* Builder::lattice_vectors
Builder_lattice_vectors(vectors) == Setter("lattice_vectors", "[[f64; 3]; 3]", vectors, "lattice_vectors", This(vectors))

\* Builder::dummy_lattice_vectors
Builder_dummy_lattice_vectors == Setter("dummy_lattice_vectors", "()", <<>>, "lattice_vectors", This(EYE))

\* Builder::positions with coordinates
Builder_positions(vs) == Setter("positions", "Coords<Vs>", vs, "positions", PositionsGet(vs))

\* Builder::positions with Zeroed
Builder_positions_zeroed(vs) == Setter("positions", "Coords<Zeroed>", vs, "positions", PositionsGetZeroed(vs))

\* Builder::velocities with coordinates
Builder_velocities(vs) == Setter("velocities", "Coords<Vs>", vs, "velocities", VelocitiesGet(vs))

\* Builder::velocities with Zeroed
Builder_velocities_zeroed(vs) == Setter("velocities", "Coords<Zeroed>", vs, "velocities", VelocitiesGetZeroed(vs))

\* Builder::no_velocities
Builder_no_velocities == Setter("no_velocities", "()", <<>>, "velocities", NotGiven)

\* Builder::group_counts
Builder_group_counts(cs) == Setter("group_counts", "Cs", cs, "group_counts", These(cs))

\* Builder::auto_group_counts
Builder_auto_group_counts == Setter("auto_group_counts", "()", <<>>, "group_counts", Auto)

\* Builder::group_symbols
Builder_group_symbols(syms) == Setter("group_symbols", "Cs", syms, "group_symbols", These(syms))

\* Builder::no_group_symbols
Builder_no_group_symbols == Setter("no_group_symbols", "()", <<>>, "group_symbols", NotGiven)

\* Builder::dynamics
Builder_dynamics(vs) == Setter("dynamics", "Vs", vs, "dynamics", These(vs))

\* Builder::no_dynamics
Builder_no_dynamics == Setter("no_dynamics", "()", <<>>, "dynamics", NotGiven)

\* Builder::build_raw on the Builder in hand: take leaves the poison value
\* behind before anything is looked at
Builder_build_raw ==
    LET data == take(builder.v)
    IN  /\ builder.some
        /\ builder' = Some(None)
        /\ out' = [op |-> "build_raw", data |-> builder.v, poisoned |-> ~builder.v.some,
                   res |-> IF data.ok THEN BuildRaw(data.v) ELSE data]
        /\ UNCHANGED <<raw, poscar, text, shown, iter, overflow_checks>>

\* Builder::build on the Builder in hand: self.build_raw().validate()
Builder_build ==
    LET data == take(builder.v)
        r == IF data.ok THEN BuildRaw(data.v) ELSE data
    IN  /\ builder.some
        /\ builder' = Some(None)
        /\ out' = [op |-> "build", data |-> builder.v, poisoned |-> ~builder.v.some,
                   res |-> IF r.ok THEN Validate(r.v) ELSE r]
        /\ UNCHANGED <<raw, poscar, text, shown, iter, overflow_checks>>

\* Poscar::group_symbols on the structure in hand, collected
DoGroupSymbols ==
    /\ poscar.some /\ iter = None
    /\ out' = [op |-> "group_symbols", res |-> Poscar_group_symbols(poscar.v)]
    /\ UNCHANGED <<raw, poscar, text, shown, builder, iter, overflow_checks>>

\* Poscar::site_symbols on the structure in hand; front and back are the
\* items the caller has been given by next and by next_back
DoSiteSymbols ==
    /\ poscar.some /\ ~SiteSymbolsPanics(poscar.v)
    /\ iter' = site_symbols(poscar.v)
    /\ out' = [op |-> "site_symbols", res |-> site_symbols(poscar.v),
               front |-> <<>>, back |-> <<>>]
    /\ UNCHANGED <<raw, poscar, text, shown, builder, overflow_checks>>

\* next on the iterator in hand
DoNext ==
    /\ iter.some
    /\ iter' = Some(WithKnownLenNext(iter.v).self)
    /\ out' = [op |-> "next", item |-> WithKnownLenNext(iter.v).item, had |-> WithKnownLenLen(iter.v),
               front |-> IF WithKnownLenNext(iter.v).item.some
                         THEN Append(out.front, WithKnownLenNext(iter.v).item.v)
                         ELSE out.front,
               back |-> out.back]
    /\ UNCHANGED <<raw, poscar, text, shown, builder, overflow_checks>>

\* next_back on the iterator in hand
DoNextBack ==
    /\ iter.some
    /\ iter' = Some(WithKnownLenNextBack(iter.v).self)
    /\ out' = [op |-> "next_back", item |-> WithKnownLenNextBack(iter.v).item, had |-> WithKnownLenLen(iter.v),
               front |-> out.front,
               back |-> IF WithKnownLenNextBack(iter.v).item.some
                        THEN Append(out.back, WithKnownLenNextBack(iter.v).item.v)
                        ELSE out.back]
    /\ UNCHANGED <<raw, poscar, text, shown, builder, overflow_checks>>

\* an accessor of the validated structure in hand is called
Access(op, value) ==
    /\ poscar.some
    /\ out' = [op |-> op, res |-> value]
    /\ UNCHANGED <<raw, poscar, text, shown, builder, iter, overflow_checks>>

Get_scaled_volume == Access("scaled_volume", scaled_volume(poscar.v))

Get_scaled_lattice_vectors == Access("scaled_lattice_vectors", scaled_lattice_vectors(poscar.v))

Get_unscaled_lattice_vectors == Access("unscaled_lattice_vectors", unscaled_lattice_vectors(poscar.v))

Get_scaled_positions == Access("scaled_positions", scaled_positions(poscar.v))

Get_scaled_cart_positions == Access("scaled_cart_positions", scaled_cart_positions(poscar.v))

Get_unscaled_cart_positions == Access("unscaled_cart_positions", unscaled_cart_positions(poscar.v))

Get_frac_positions == Access("frac_positions", frac_positions(poscar.v))

Get_frac_velocities == Access("frac_velocities", frac_velocities(poscar.v))

Get_cart_velocities == Access("cart_velocities", cart_velocities(poscar.v))

\* the lifecycle of a structure: build, edit, validate, format, parse
Next ==
    \/ \E data \in BuilderInputs : DoBuildRaw(data)
    \/ \E data \in BuilderInputs : DoBuild(data)
    \/ SetComment(CrComment)
    \/ \E x \in EditScales : SetScale(x)
    \/ \E x \in EditSymbols : SetGroupSymbols(x)
    \/ \E x \in EditCounts : SetGroupCounts(x)
    \/ \E x \in EditCoords : SetPositions(x)
    \/ \E x \in EditVelocities : SetVelocities(x)
    \/ \E x \in EditDynamics : SetDynamics(x)
    \/ DoValidate
    \/ DoValidateClone
    \/ DoIntoRaw
    \/ \E f \in FormatRequests : DoDisplay(f)
    \/ DoParse
    \/ \E t \in LifecycleInputs : DoInput(t)

Spec == InitIdle /\ [][Next]_vars

\* a raw structure handed to validate
InitValidate ==
    /\ raw \in {Some(r) : r \in ValidateInputs}
    /\ poscar = None
    /\ text = None
    /\ shown = None
    /\ out = [op |-> "none"]
    /\ overflow_checks = FALSE
    /\ builder = None
    /\ iter = None

\* validate, then format what it returned
NextValidate ==
    \/ DoValidate
    \/ DoDisplay(DefaultFormat)

SpecValidate == InitValidate /\ [][NextValidate]_vars

\* a file handed to from_reader
InitParse ==
    /\ raw = None
    /\ poscar = None
    /\ text \in {Some(t) : t \in InputFiles}
    /\ shown = None
    /\ out = [op |-> "none"]
    /\ overflow_checks = FALSE
    /\ builder = None
    /\ iter = None

\* parse, format what it returned, parse again
NextParse ==
    \/ DoParse
    \/ DoFromPath(PoscarPath)
    \/ DoErrorDisplay
    \/ DoDisplay(DefaultFormat)

SpecParse == InitParse /\ [][NextParse]_vars

\* a formatted file with blank lines appended, handed to from_reader
InitAppended ==
    /\ raw = None
    /\ poscar = None
    /\ text \in {Some(t) : t \in AppendedFiles}
    /\ shown = None
    /\ out = [op |-> "none"]
    /\ overflow_checks = FALSE
    /\ builder = None
    /\ iter = None

\* parse, and format what the parser returned
NextAppended ==
    \/ DoParse
    \/ DoDisplay(DefaultFormat)

SpecAppended == InitAppended /\ [][NextAppended]_vars

\* a token handed to the parser of logicals
InitLogical ==
    /\ raw = None
    /\ poscar = None
    /\ text \in {Some(t) : t \in LogicalTokens}
    /\ shown = None
    /\ out = [op |-> "none"]
    /\ overflow_checks = FALSE
    /\ builder = None
    /\ iter = None

NextLogical == DoParseLogical

SpecLogical == InitLogical /\ [][NextLogical]_vars

\* a line handed to the tokenizer
InitWords ==
    /\ raw = None
    /\ poscar = None
    /\ text \in {Some(t) : t \in TokenizerLines}
    /\ shown = None
    /\ out = [op |-> "none"]
    /\ overflow_checks = FALSE
    /\ builder = None
    /\ iter = None

NextWords == \E line \in {0, 5}, col \in {0, 3} : DoWords(line, col)

SpecWords == InitWords /\ [][NextWords]_vars

\* a Builder as Builder::new returns it
InitBuilder ==
    /\ raw = None
    /\ poscar = None
    /\ text = None
    /\ shown = None
    /\ out = [op |-> "new"]
    /\ overflow_checks = FALSE
    /\ builder = Some(Some(BuilderDefault))
    /\ iter = None

\* the methods of the Builder, in any order and number
NextBuilder ==
    \/ \E s \in BuilderComments : Builder_comment(s)
    \/ \E s \in BuilderScales : Builder_scale(s)
    \/ \E m \in BuilderLattices : Builder_lattice_vectors(m)
    \/ Builder_dummy_lattice_vectors
    \/ \E vs \in BuilderPositions : Builder_positions(vs)
    \/ \E vs \in BuilderZeroedPositions : Builder_positions_zeroed(vs)
    \/ \E vs \in BuilderVelocities : Builder_velocities(vs)
    \/ \E vs \in BuilderZeroedVelocities : Builder_velocities_zeroed(vs)
    \/ Builder_no_velocities
    \/ \E cs \in BuilderCounts : Builder_group_counts(cs)
    \/ Builder_auto_group_counts
    \/ \E syms \in BuilderSymbols : Builder_group_symbols(syms)
    \/ Builder_no_group_symbols
    \/ \E vs \in BuilderDynamics : Builder_dynamics(vs)
    \/ Builder_no_dynamics
    \/ Builder_build_raw
    \/ Builder_build

SpecBuilder == InitBuilder /\ [][NextBuilder]_vars

\* a raw structure whose sites will be listed
InitSites ==
    /\ raw \in {Some(r) : r \in SiteStructures}
    /\ poscar = None
    /\ text = None
    /\ shown = None
    /\ out = [op |-> "none"]
    /\ overflow_checks = FALSE
    /\ builder = None
    /\ iter = None

\* validate, ask for the symbols, and take them from either end
NextSites ==
    \/ DoValidate
    \/ DoGroupSymbols
    \/ DoSiteSymbols
    \/ DoNext
    \/ DoNextBack

SpecSites == InitSites /\ [][NextSites]_vars

\* a raw structure whose computed properties will be asked for
InitAccessors ==
    /\ raw \in {Some(r) : r \in AccessorStructures}
    /\ poscar = None
    /\ text = None
    /\ shown = None
    /\ out = [op |-> "none"]
    /\ overflow_checks = FALSE
    /\ builder = None
    /\ iter = None

\* validate, then call the accessors in any order
NextAccessors ==
    \/ DoValidate
    \/ Get_scaled_volume
    \/ Get_scaled_lattice_vectors
    \/ Get_unscaled_lattice_vectors
    \/ Get_scaled_positions
    \/ Get_scaled_cart_positions
    \/ Get_unscaled_cart_positions
    \/ Get_frac_positions
    \/ Get_frac_velocities
    \/ Get_cart_velocities

SpecAccessors == InitAccessors /\ [][NextAccessors]_vars

\* a file handed to from_reader by a source that may fail to read a line
InitRead ==
    /\ raw = None
    /\ poscar = None
    /\ text \in {Some(t) : t \in ReadFiles}
    /\ shown = None
    /\ out = [op |-> "none"]
    /\ overflow_checks = FALSE
    /\ builder = None
    /\ iter = None

\* parse, from a reader or from a path
NextRead ==
    \/ DoParse
    \/ DoFromPath(PoscarPath)

SpecRead == InitRead /\ [][NextRead]_vars

\* a build with or without overflow checks; a file, a raw structure and a
\* Builder that hold the same counts
InitCounts ==
    \E cn \in WordCounts, k \in WordLengths, zeroed \in BOOLEAN :
        /\ raw = Some(WordRaw(cn, k))
        /\ poscar = None
        /\ text = Some(WordFile(cn, k))
        /\ shown = None
        /\ out = [op |-> "none"]
        /\ overflow_checks \in BOOLEAN
        /\ builder = Some(Some(WordData(cn, k, zeroed)))
        /\ iter = None

\* parse the file, validate the raw structure, build from the Builder
NextCounts ==
    \/ DoParse
    \/ DoValidate
    \/ Builder_build_raw
    \/ Builder_build

SpecCounts == InitCounts /\ [][NextCounts]_vars

(***************************************************************************)
(* Properties.                                                             *)
(***************************************************************************)
\* C1: round trip.  For every validated structure, parsing the text the
\* formatter writes for it under "{}" succeeds and gives a structure equal
\* to it in every field, the velocities included.
C1_RoundTrip ==
    (out.op = "parse" /\ out.shown.some /\ out.shown.v.f = DefaultFormat)
        => out.res = ParseOk(out.shown.v.poscar)

\* C2: the output is always reparseable.  For every validated structure and
\* every format request (default, width, precision, '+', alternate), parsing
\* the text the formatter writes returns a structure and not an error.
C2_OutputReparseable ==
    (out.op = "parse" /\ out.shown.some) => out.res.st = "ok"

\* C3: the grammar only produces structures that respect the invariants.
\* Whenever the parser reports no lexical or structural error, the raw
\* structure it assembled passes validate, so the validation at the end of
\* parsing never fails, whatever the comment line and the symbols contain.
C3_GrammarRespectsInvariants ==
    out.op = "parse" => out.res # ParsePanic(InvariantNotChecked)

\* the sum of a list of counts
RECURSIVE TotalAtoms(_)
TotalAtoms(counts) ==
    IF Len(counts) = 0 THEN 0 ELSE counts[Len(counts)] + TotalAtoms(SubSeq(counts, 1, Len(counts) - 1))

\* the validation invariants of a structure
Invariants(p) ==
    /\ \A i \in 1..Len(p.comment) : p.comment[i] \notin {"\n", "\r"}
    /\ p.scale.x # NaN /\ p.scale.x > 0
    /\ p.group_symbols.some => Len(p.group_symbols.v) = Len(p.group_counts)
    /\ TotalAtoms(p.group_counts) >= 1
    /\ Len(p.positions.v) = TotalAtoms(p.group_counts)
    /\ p.velocities.some => Len(p.velocities.v.v) = TotalAtoms(p.group_counts)
    /\ p.dynamics.some => Len(p.dynamics.v) = TotalAtoms(p.group_counts)

\* C4: in every state reachable through parse, build, validate, into_raw,
\* edits of the raw fields and re-validation, the validated structure in
\* hand satisfies every validation invariant; so neither the formatter
\* (its assertions, its per-atom dynamics lookup) nor site_symbols panics.
C4_ValidatedInvariant ==
    poscar.some =>
        /\ Invariants(poscar.v)
        /\ ~DisplayPanics(poscar.v)
        /\ ~SiteSymbolsPanics(poscar.v)

\* C4's case: a structure taken apart by into_raw, edited, and validated again
C4_Witness ==
    /\ out.op = "validate" /\ out.res.ok
    /\ poscar = Some(out.arg)
    /\ poscar.v.scale = Volume(25)
    /\ poscar.v.group_symbols.some /\ poscar.v.velocities.some /\ poscar.v.dynamics.some

\* the checks of validation, numbered in the order the claims list them
Violates(k, r) ==
    LET n == TotalAtoms(r.group_counts)
    IN  CASE k = 1 -> r.group_symbols.some /\ Len(r.group_symbols.v) # Len(r.group_counts)
          [] k = 2 -> \E i \in 1..Len(r.comment) : r.comment[i] \in {"\n", "\r"}
          [] k = 3 -> ~(r.scale.x # NaN /\ r.scale.x > 0)
          [] k = 4 -> n = 0
          [] k = 5 -> /\ r.group_symbols.some
                      /\ \E i \in 1..Len(r.group_symbols.v) :
                            LET sym == r.group_symbols.v[i]
                            IN  \/ sym = <<>>
                                \/ \E j \in 1..Len(sym) : sym[j] \in {" ", "\t", "\r", "\n"}
                                \/ sym[1] \in {"0", "1", "2", "3", "4", "5", "6", "7", "8", "9"}
          [] k = 6 -> Len(r.positions.v) # n
          [] k = 7 -> r.velocities.some /\ Len(r.velocities.v.v) # n
          [] k = 8 -> r.dynamics.some /\ Len(r.dynamics.v) # n

\* the checks a raw structure violates
Violated(r) == {k \in 1..8 : Violates(k, r)}

\* the lowest-numbered check a raw structure violates
FirstViolated(r) == CHOOSE k \in Violated(r) : \A j \in Violated(r) : k <= j

\* the kind of error of each check
ErrorKindOf(k) ==
    <<"InconsistentNumGroups", "NewlineInComment", "BadScaleLine", "NoAtoms",
      "InvalidSymbol", "WrongLength", "WrongLength", "WrongLength">>[k]

\* the field each length check is about
FieldOf(k) == CASE k = 6 -> "positions" [] k = 7 -> "velocities" [] k = 8 -> "dynamics"

\* C5: validate is fail-fast in a fixed order.  It succeeds if and only if
\* no check is violated, and otherwise reports the error of the
\* lowest-numbered violated check: InconsistentNumGroups, NewlineInComment,
\* BadScaleLine, NoAtoms, InvalidSymbol, WrongLength of positions, of
\* velocities, of dynamics.
C5_FailFastOrder ==
    out.op = "validate" =>
        IF Violated(out.arg) = {}
        THEN out.res = Ok(out.arg)
        ELSE /\ ~out.res.ok
             /\ out.res.err.kind = ErrorKindOf(FirstViolated(out.arg))
             /\ FirstViolated(out.arg) >= 6 => out.res.err.field = FieldOf(FirstViolated(out.arg))

\* C5's case: a structure that violates every check but the first, and an
\* error that is the one of the second check
C5_Witness ==
    /\ out.op = "validate"
    /\ Violated(out.arg) = 2..8
    /\ out.res = Err(NewlineInComment)

\* C6: for a raw structure whose other fields are valid and whose counts sum
\* to n >= 1, validate succeeds when positions, velocities (if present) and
\* dynamics (if present) each have length n, and otherwise fails with
\* WrongLength naming a field of another length and carrying n.
C6_LengthTotality ==
    (out.op = "validate" /\ Violated(out.arg) \cap (1..5) = {}) =>
        IF Violated(out.arg) = {}
        THEN out.res.ok
        ELSE /\ ~out.res.ok
             /\ out.res.err.kind = "WrongLength"
             /\ out.res.err.n = TotalAtoms(out.arg.group_counts)
             /\ \E k \in Violated(out.arg) : out.res.err.field = FieldOf(k)

\* C6's case: two groups, positions of the right length, velocities of
\* another length
C6_Witness ==
    /\ out.op = "validate"
    /\ Len(out.arg.group_counts) = 2
    /\ Violated(out.arg) = {7}
    /\ out.res = Err(WrongLength("velocities", TotalAtoms(out.arg.group_counts)))

\* C7 as stated: for a raw structure whose other fields are valid, validate
\* fails with BadScaleLine if and only if the payload of the scale is <= 0,
\* for Factor and for Volume, the payload being negative, zero, positive or NaN.
C7_BadScaleIffNotPositive_Original ==
    (out.op = "validate" /\ Violated(out.arg) \subseteq {3}) =>
        (out.res = Err(BadScaleLine)
            <=> (out.arg.scale.x # NaN /\ out.arg.scale.x <= 0))

\* C7 amended: for a raw structure whose other fields are valid, validate
\* fails with BadScaleLine if and only if the payload of the scale is not
\* > 0, that is if it is <= 0 or NaN, for Factor and for Volume; otherwise
\* it succeeds.
C7_BadScaleIffNotPositive ==
    (out.op = "validate" /\ Violated(out.arg) \subseteq {3}) =>
        /\ out.res = Err(BadScaleLine)
              <=> (out.arg.scale.x = NaN \/ out.arg.scale.x <= 0)
        /\ out.res # Err(BadScaleLine) => out.res = Ok(out.arg)

\* C7's case: a NaN payload in an otherwise valid structure
C7_Witness ==
    /\ out.op = "validate"
    /\ Violated(out.arg) = {3}
    /\ out.arg.scale = Volume(NaN)
    /\ out.res = Err(BadScaleLine)

\* the symbols of a list that break a rule: empty, white space inside, or a
\* leading digit
Offending(symbols) ==
    {i \in 1..Len(symbols) :
        \/ symbols[i] = <<>>
        \/ \E j \in 1..Len(symbols[i]) : symbols[i][j] \in {" ", "\t", "\r", "\n"}
        \/ symbols[i][1] \in {"0", "1", "2", "3", "4", "5", "6", "7", "8", "9"}}

\* the words of the symbols line of a formatted structure: its sixth line
SymbolsLineWords(t) ==
    LET ws == Words(Spanned(5, 0, BufLines(t)[6]))
    IN  [i \in 1..Len(ws) |-> ws[i].s]

InputLines == out.lines

\* the words of the second line of that file
ScaleWords == Words(Spanned(1, 0, InputLines[2]))

BlockLine == InputLines[6]

BlockWords == Words(Spanned(5, 0, BlockLine))

\* the parser got to the line after the lattice
ReachedBlock ==
    /\ out.op = "parse"
    /\ Len(InputLines) >= 6
    /\ ~(out.res.st = "err" /\ out.res.err.line.some /\ out.res.err.line.v < 5)

\* that line is the counts line: its first character that is not white
\* space is a digit
BlockIsCounts == Trim(BlockLine) # <<>> /\ IsDigit(Trim(BlockLine)[1])

\* the symbols the claim gives the block
BlockSymbols ==
    IF BlockIsCounts THEN None ELSE Some([i \in 1..Len(BlockWords) |-> BlockWords[i].s])

\* the 0-based number of the counts line
CountsLineNo == IF BlockIsCounts THEN 5 ELSE 6

\* the longest prefix of words made of decimal digits only, as numbers
RECURSIVE UnsignedPrefix(_)
UnsignedPrefix(ws) ==
    IF ws = <<>> \/ ws[1].s = <<>> \/ \E i \in 1..Len(ws[1].s) : ~IsDigit(ws[1].s[i])
    THEN <<>>
    ELSE <<DigitsToNat(ws[1].s)>> \o UnsignedPrefix(Tail(ws))

\* the counts the claim gives the block
BlockCounts == UnsignedPrefix(Words(Spanned(CountsLineNo, 0, InputLines[CountsLineNo + 1])))

\* what the claim says of the block once the counts line is there
BlockOutcome ==
    IF BlockSymbols.some /\ Len(BlockSymbols.v) # Len(BlockCounts)
    THEN out.res.st = "err" /\ out.res.err.kind = InconsistentGroupCount
              /\ out.res.err.line = Some(CountsLineNo)
    ELSE IF TotalAtoms(BlockCounts) = 0
    THEN out.res.st = "err" /\ out.res.err.kind = ParseNoAtoms
              /\ out.res.err.line = Some(CountsLineNo)
    ELSE /\ out.res.st = "err" =>
               ~(out.res.err.line.some /\ out.res.err.line.v <= CountsLineNo)
         /\ out.res.st = "ok" =>
               /\ out.res.poscar.group_symbols = BlockSymbols
               /\ out.res.poscar.group_counts = BlockCounts

PastBlock ==
    /\ ReachedBlock
    /\ BlockWords # <<>> /\ Trim(BlockLine) # <<>>
    /\ Len(InputLines) >= CountsLineNo + 1
    /\ BlockSymbols.some => Len(BlockSymbols.v) = Len(BlockCounts)
    /\ TotalAtoms(BlockCounts) > 0

\* the very first character of a line is one of a set
FirstCharIn(line, set) == line # <<>> /\ line[1] \in set

\* the 0-based number of the line after the counts line
FlagLineNo == CountsLineNo + 1

\* that line switches selective dynamics on
HasSelective == FirstCharIn(InputLines[FlagLineNo + 1], {"s", "S"})

\* the 0-based number of the coordinate-system line
CoordLineNo == IF HasSelective THEN FlagLineNo + 1 ELSE FlagLineNo

\* the coordinate-system line asks for Cartesian coordinates
IsCartesian == FirstCharIn(InputLines[CoordLineNo + 1], {"c", "C", "k", "K"})

\* the flag lines of the file are there
HasFlagLines ==
    /\ PastBlock
    /\ Len(InputLines) >= FlagLineNo + 1
    /\ Len(InputLines) >= CoordLineNo + 1

\* C11: after the counts line, a line whose very first character is s or S
\* enables selective dynamics and is consumed, the coordinate-system line
\* being the next one; otherwise selective dynamics is off and that line is
\* the coordinate-system line.  Positions are Cartesian if and only if the
\* very first character of the coordinate-system line is c, C, k or K;
\* every other line (empty, starting with a blank, any other character)
\* gives Fractional, and no flag line gives an error.
C11_FlagLines ==
    HasFlagLines =>
        /\ out.res.st = "err" => (out.res.err.line.some /\ out.res.err.line.v > CoordLineNo)
        /\ out.res.st = "ok" =>
              /\ out.res.poscar.dynamics.some <=> HasSelective
              /\ out.res.poscar.positions.tag = IF IsCartesian THEN "Cart" ELSE "Frac"

\* C11's case: a selective-dynamics line, then a coordinate-system line
\* that starts with a blank followed by C, read as Fractional
C11_Witness ==
    /\ HasFlagLines
    /\ HasSelective
    /\ InputLines[CoordLineNo + 1] = <<" ", "C">>
    /\ out.res.st = "ok"
    /\ out.res.poscar.positions.tag = "Frac"
    /\ out.res.poscar.dynamics.some

\* a token matches \.?[tTfF].*
MatchesLogical(tok) ==
    \/ Len(tok) >= 1 /\ tok[1] \in {"t", "T", "f", "F"}
    \/ Len(tok) >= 2 /\ tok[1] = "." /\ tok[2] \in {"t", "T", "f", "F"}

\* the value of a token that matches: true for t or T
LogicalValue(tok) == (IF tok[1] = "." THEN tok[2] ELSE tok[1]) \in {"t", "T"}

\* the number of atoms the counts line announces
NAtoms == TotalAtoms(BlockCounts)

\* the 0-based number of the first line of the position block
PosLineNo == CoordLineNo + 1

\* the words of the i-th line of the position block, i counted from 0
PosWords(i) == Words(Spanned(PosLineNo + i, 0, InputLines[PosLineNo + i + 1]))

\* the i-th line of the position block is there and supplies three reals
\* and, under selective dynamics, three logicals after them
PosLineGood(i) ==
    /\ Len(InputLines) >= PosLineNo + i + 1
    /\ Len(PosWords(i)) >= 3
    /\ \A k \in 1..3 : ParseF64(PosWords(i)[k].s).some
    /\ HasSelective =>
          /\ Len(PosWords(i)) >= 6
          /\ \A k \in 4..6 : MatchesLogical(PosWords(i)[k].s)

\* the lines of the position block that are missing or malformed
BadPosLines == {i \in 0..(NAtoms - 1) : ~PosLineGood(i)}

\* the first of them
FirstBadPosLine == CHOOSE i \in BadPosLines : \A j \in BadPosLines : i <= j

\* the positions and the flags the position block holds
BlockPositions == [i \in 1..NAtoms |-> [k \in 1..3 |-> ParseF64(PosWords(i - 1)[k].s).v]]

BlockDynamics == [i \in 1..NAtoms |-> [k \in 1..3 |-> LogicalValue(PosWords(i - 1)[3 + k].s)]]

\* C12: with N the sum of the counts, the parser consumes exactly N lines
\* after the coordinate-system line.  Each must supply 3 reals as its first
\* three words and, if and only if selective dynamics is on, 3 logicals as
\* its next three; later words are ignored.  On success positions has the N
\* triples in file order, and dynamics is Some of the N flag triples if the
\* selective-dynamics line was present and None otherwise.  Fewer than N
\* lines fail with UnexpectedEndOfInput; a missing or malformed word fails
\* with an error on its line.
C12_PositionData ==
    HasFlagLines =>
        IF BadPosLines = {}
        THEN /\ out.res.st = "err" =>
                   (out.res.err.line.some /\ out.res.err.line.v >= PosLineNo + NAtoms)
             /\ out.res.st = "ok" =>
                   /\ out.res.poscar.positions.v = BlockPositions
                   /\ out.res.poscar.dynamics =
                          IF HasSelective THEN Some(BlockDynamics) ELSE None
        ELSE IF Len(InputLines) < PosLineNo + FirstBadPosLine + 1
        THEN out.res = ParseErr(ParseError(UnexpectedEndOfInput, Some(Len(InputLines)), None))
        ELSE /\ out.res.st = "err"
             /\ out.res.err.line = Some(PosLineNo + FirstBadPosLine)

\* C12's case: two atoms under selective dynamics, a line with words after
\* the flags
C12_Witness ==
    /\ HasFlagLines
    /\ HasSelective
    /\ NAtoms = 2
    /\ BadPosLines = {}
    /\ Len(PosWords(1)) > 6
    /\ out.res.st = "ok"
    /\ out.res.poscar.dynamics = Some(BlockDynamics)
    /\ Len(out.res.poscar.positions.v) = 2

\* the 0-based number of the line after the position block
VelLineNo == PosLineNo + NAtoms

\* the words of the i-th line after that line, i counted from 0
VelWords(i) == Words(Spanned(VelLineNo + 1 + i, 0, InputLines[VelLineNo + i + 2]))

\* the position block is followed by a coordinate-system line and exactly N
\* lines of 3 reals
HasVelocityBlock ==
    /\ Len(InputLines) = VelLineNo + 1 + NAtoms
    /\ \A i \in 0..(NAtoms - 1) :
          /\ Len(VelWords(i)) = 3
          /\ \A k \in 1..3 : ParseF64(VelWords(i)[k].s).some

\* the velocities that block holds
BlockVelocities ==
    [tag |-> IF FirstCharIn(InputLines[VelLineNo + 1], {"c", "C", "k", "K"})
             THEN "Cart" ELSE "Frac",
     v |-> [i \in 1..NAtoms |-> [k \in 1..3 |-> ParseF64(VelWords(i - 1)[k].s).v]]]

\* C13: when the N position lines are followed by a coordinate-system line
\* and N further lines of 3 reals, parsing succeeds with velocities = Some
\* of those N vectors in file order, Cartesian if that line's first
\* character is c, C, k or K and Fractional otherwise; when the input ends
\* after the positions, velocities = None.
C13_VelocityBlock ==
    (HasFlagLines /\ BadPosLines = {} /\ out.res.st # "panic") =>
        /\ HasVelocityBlock =>
              /\ out.res.st = "ok"
              /\ out.res.poscar.velocities = Some(BlockVelocities)
        /\ Len(InputLines) = VelLineNo =>
              /\ out.res.st = "ok"
              /\ out.res.poscar.velocities = None

RECURSIVE DropBlankEnd(_)
\* a list of lines without the blank lines at its end
DropBlankEnd(lines) ==
    IF lines # <<>> /\ \A i \in 1..Len(lines[Len(lines)]) : lines[Len(lines)][i] \in {" ", "\t"}
    THEN DropBlankEnd(SubSeq(lines, 1, Len(lines) - 1))
    ELSE lines

\* the file read, without the blank lines at its end
InputOriginal == File(DropBlankEnd(InputLines))

\* C14: for a file in the default output format, ending after the positions
\* or after a velocity block introduced by a blank line, appending 0 to 3
\* lines of blanks and tabs still parses, and formatting the result gives
\* the original file back: the appended lines are not taken for a velocity
\* header and do not remove a velocity block.
C14_TrailingBlankLines ==
    (/\ out.op = "parse"
     /\ InputOriginal \in FormattedFiles
     /\ Len(InputLines) - Len(DropBlankEnd(InputLines)) <= MaxAppended) =>
        /\ out.res.st = "ok"
        /\ Display(DefaultFormat, out.res.poscar) = InputOriginal

\* the data lines of the file were all read: the parser is past the
\* position block
PastData == HasFlagLines /\ BadPosLines = {}

\* a line holds a character that is not white space
HasNonWhiteSpace(line) ==
    \E i \in 1..Len(line) : line[i] \notin {" ", "\t", "\r", "\n", "\f"}

\* the 0-based numbers of the lines after the last data line that hold such
\* a character
TrailingContent ==
    {i \in VelLineNo..(Len(InputLines) - 1) : HasNonWhiteSpace(InputLines[i + 1])}

\* the file read, cut after its last data line
InputData == File(SubSeq(InputLines, 1, VelLineNo))

Count(b) == IF b THEN 1 ELSE 0

\* the words of a line of text, as strings
LineWords(line) == WordStrings(Words(Spanned(0, 0, line)))

\* the lines of the text in hand
TextLines == BufLines(text.v)

\* the structure the text in hand was formatted from
Shown == shown.v.poscar

\* the number of lines the formatter writes before the position lines
HeadLines == 7 + Count(Shown.group_symbols.some) + Count(Shown.dynamics.some)

\* the letter of a flag
FlagLetter(b) == IF b THEN <<"T">> ELSE <<"F">>

\* C16: the formatter writes, in this order, the comment line; the scale
\* line, with a '-' before the payload if and only if the scale is Volume; 3
\* lattice lines; a symbols line iff symbols are present; the counts line; a
\* 'Selective Dynamics' line iff dynamics is present; 'Cartesian' or 'Direct'
\* by the tag of the positions; one line per atom with 3 coordinates and,
\* iff dynamics is present, the atom's 3 flags as T or F; and, iff
\* velocities are present, a header ('Cartesian', or an empty line for
\* Fractional) and one line per atom.  For n atoms that is exactly
\* 7 + n + [symbols] + [dynamics] + [velocities] * (n + 1) lines.
C16_FormatterLayout ==
    (text.some /\ shown.some) =>
        LET n == Len(Shown.positions.v)
            sy == Count(Shown.group_symbols.some)
        IN  /\ Len(TextLines) = 7 + n + sy + Count(Shown.dynamics.some)
                                  + Count(Shown.velocities.some) * (n + 1)
            /\ TextLines[1] = Shown.comment
            /\ Len(LineWords(TextLines[2])) >= 1
            /\ LineWords(TextLines[2])[1][1] = "-" <=> Shown.scale.tag = "Volume"
            /\ \A r \in 3..5 : Len(LineWords(TextLines[r])) = 3
            /\ Shown.group_symbols.some => LineWords(TextLines[6]) = Shown.group_symbols.v
            /\ LineWords(TextLines[6 + sy]) =
                   [i \in 1..Len(Shown.group_counts) |-> NatToChars(Shown.group_counts[i])]
            /\ Shown.dynamics.some =>
                   TextLines[7 + sy] =
                       <<"S","e","l","e","c","t","i","v","e"," ","D","y","n","a","m","i","c","s">>
            /\ TextLines[HeadLines] =
                   IF Shown.positions.tag = "Cart"
                   THEN <<"C","a","r","t","e","s","i","a","n">>
                   ELSE <<"D","i","r","e","c","t">>
            /\ \A i \in 1..n :
                   LET ws == LineWords(TextLines[HeadLines + i])
                   IN  IF Shown.dynamics.some
                       THEN /\ Len(ws) = 6
                            /\ \A k \in 1..3 : ws[3 + k] = FlagLetter(Shown.dynamics.v[i][k])
                       ELSE Len(ws) = 3
            /\ Shown.velocities.some =>
                   /\ TextLines[HeadLines + n + 1] =
                          IF Shown.velocities.v.tag = "Cart"
                          THEN <<"C","a","r","t","e","s","i","a","n">>
                          ELSE <<>>
                   /\ \A i \in 1..n : Len(LineWords(TextLines[HeadLines + n + 1 + i])) = 3

\* C16's case: symbols, dynamics and fractional velocities, a Volume scale
C16_Witness ==
    /\ text.some /\ shown.some
    /\ Shown.group_symbols.some /\ Shown.dynamics.some
    /\ Shown.velocities.some /\ Shown.velocities.v.tag = "Frac"
    /\ Shown.scale.tag = "Volume"
    /\ Len(TextLines) = 9 + 2 * Len(Shown.positions.v) + 1

\* C17 as stated: when validation of a raw structure fails, the raw
\* structure is not discarded: after the failed call the caller still holds
\* it, unchanged.
C17_RepeatableGate_Original ==
    (out.op = "validate" /\ ~out.res.ok) => raw = Some(out.arg)

\* C17 amended: validate takes the raw structure by value.  After the call
\* the caller no longer holds it; when the call fails the caller holds the
\* error alone, and the error carries no copy of the structure.  A caller
\* who validates a clone still holds the structure, unchanged, after the
\* failed call, and can inspect it, repair it and validate it again.
C17_RepeatableGate ==
    /\ out.op = "validate" =>
          /\ raw = None
          /\ ~out.res.ok =>
                /\ poscar = None
                /\ DOMAIN out.res.err \subseteq {"kind", "sym", "field", "n"}
    /\ out.op = "validate_clone" =>
          /\ raw = Some(out.arg)
          /\ ENABLED DoValidate

\* C17's case: a failed validate that left the caller with the error only
C17_Witness ==
    /\ out.op = "validate"
    /\ out.res = Err(NewlineInComment)
    /\ raw = None /\ poscar = None

\* C18: parsing a token as a logical succeeds exactly when the token
\* matches \.?[tTfF].* : an optional single leading '.', then t or T (true)
\* or f or F (false), the rest being ignored.  Every other token (the empty
\* one, '.', '..T', any other first character) fails with InvalidLogical.
C18_LogicalParsing ==
    out.op = "logical" =>
        IF MatchesLogical(out.input)
        THEN out.res = Ok(LogicalValue(out.input))
        ELSE out.res = Err([kind |-> InvalidLogical, input |-> out.input])

\* C18's case: a dot, a letter and more characters
C18_Witness ==
    /\ out.op = "logical"
    /\ out.input = <<".", "f", "T">>
    /\ out.res = Ok(FALSE)

\* the 1-based positions at which a maximal run of characters outside a set
\* of separators begins
RunStarts(s, seps) ==
    {i \in 1..Len(s) : s[i] \notin seps /\ (i = 1 \/ s[i - 1] \in seps)}

\* the position at which the run that begins at i ends
RunEnd(s, seps, i) ==
    CHOOSE j \in i..Len(s) :
        /\ \A k \in i..j : s[k] \notin seps
        /\ j = Len(s) \/ s[j + 1] \in seps

\* the k-th smallest element of a set of numbers
Nth(S, k) == CHOOSE x \in S : Cardinality({y \in S : y <= x}) = k

\* the maximal runs of a line in left-to-right order, each with the line's
\* index and with the line's column plus the offset of its first character
Runs(sp, seps) ==
    [k \in 1..Cardinality(RunStarts(sp.s, seps)) |->
        LET i == Nth(RunStarts(sp.s, seps), k)
        IN  Spanned(sp.line, sp.col + (i - 1), SubSeq(sp.s, i, RunEnd(sp.s, seps, i)))]

WordErrorKinds ==
    {InvalidNumber, InvalidLogical, ScaleCannotBeZero, ScaleCannotBeNaN, TooManyScaleValues}

\* the words of a line of the file read that begin at a column
WordsAt(line, col) ==
    {w \in {Runs(Spanned(line, 0, InputLines[line + 1]), {" ", "\t", "\r", "\n"})[k] :
               k \in 1..Cardinality(RunStarts(InputLines[line + 1], {" ", "\t", "\r", "\n"}))} :
        w.col = col}

\* a word is one an error of this kind is about
Offends(w, kind) ==
    CASE kind = InvalidNumber -> ~ParseF64(w.s).some
      [] kind = InvalidLogical -> ~MatchesLogical(w.s)
      [] kind = ScaleCannotBeZero -> ParseF64(w.s) = Some(0)
      [] kind = ScaleCannotBeNaN -> ParseF64(w.s) = Some(NaN)
      [] kind = TooManyScaleValues -> ParseF64(w.s).some

\* C20: every parse error carries the 0-based index of the line on which it
\* was detected (for UnexpectedEndOfInput, the number of lines of the
\* input) and, for an error about a word, the 0-based column of the word's
\* first character.  Its displayed message starts with the source path, or
\* with '<input>' when there is none, followed by the line as index + 1 and,
\* when a column is known, the column as index + 1.
C20_ErrorProvenance ==
    /\ (out.op = "parse" /\ out.res.st = "err") =>
          /\ out.res.err.line.some
          /\ IF out.res.err.kind = UnexpectedEndOfInput
             THEN out.res.err.line = Some(Len(InputLines)) /\ out.res.err.col = None
             ELSE out.res.err.line.v < Len(InputLines)
          /\ out.res.err.kind \in WordErrorKinds =>
                /\ out.res.err.col.some
                /\ \E w \in WordsAt(out.res.err.line.v, out.res.err.col.v) :
                       Offends(w, out.res.err.kind)
    /\ out.op = "error" =>
          LET source == IF out.path.some THEN out.path.v ELSE <<"<", "i", "n", "p", "u", "t", ">">>
              line == NatToChars(out.err.line.v + 1)
          IN  out.msg.head =
                  IF out.err.col.some
                  THEN source \o <<":">> \o line \o <<":">> \o NatToChars(out.err.col.v + 1) \o <<":", " ">>
                  ELSE source \o <<":">> \o line \o <<":", " ">>

\* C20's case: a malformed flag in the second word of its group, on the
\* ninth line of a file read from a path
C20_Witness ==
    /\ out.op = "error"
    /\ out.path = Some(PoscarPath)
    /\ out.err = ParseError(InvalidLogical, Some(8), Some(10))
    /\ out.msg.head = PoscarPath \o <<":", "9", ":", "1", "1", ":", " ">>

(***************************************************************************)
(* The Builder.                                                            *)
(***************************************************************************)
\* the setters of a Builder
SetterNames ==
    {"comment", "scale", "lattice_vectors", "dummy_lattice_vectors", "positions",
     "velocities", "no_velocities", "group_counts", "auto_group_counts",
     "group_symbols", "no_group_symbols", "dynamics", "no_dynamics"}

\* build and build_raw
BuildNames == {"build", "build_raw"}

\* the Builder in hand is poisoned
Poisoned == builder = Some(None)

\* C21: Builder poisoning.  A call of build or build_raw leaves the Builder
\* poisoned, whether it returns or panics; on a poisoned Builder every method
\* call - setter, build, build_raw - panics with ALREADY_CONSUMED_MSG and
\* leaves it poisoned; on a Builder that is not poisoned no setter panics,
\* and no setter poisons it.  So every call after the first build call
\* panics, and no setter before it does.
C21_BuilderPoisoning ==
    [][/\ out'.op \in BuildNames => Poisoned'
       /\ Poisoned => (Poisoned' /\ out'.res = Panic(ALREADY_CONSUMED_MSG))
       /\ (~Poisoned /\ out'.op \in SetterNames) => (~Poisoned' /\ out'.res = Ok("self"))
       /\ ~Poisoned => out'.res # Panic(ALREADY_CONSUMED_MSG)]_vars

\* a setter called on a poisoned Builder has panicked
C21_Witness ==
    /\ out.op \in SetterNames
    /\ out.poisoned
    /\ out.res = Panic(ALREADY_CONSUMED_MSG)
    /\ Poisoned

\* the data the last build or build_raw took out of the Builder
Taken == out.data.v

\* a required field of the taken data is missing
RequiredMissing ==
    \/ Taken.lattice_vectors = Missing
    \/ Taken.positions = Missing
    \/ (Taken.positions.k = "Zero" /\ Taken.group_counts = Auto)

\* the last call was this build method, on a Builder that was not poisoned
Built(op) == out.op = op /\ ~out.poisoned

\* C22: Builder required fields.  The lattice is Missing exactly as long as
\* neither lattice_vectors nor dummy_lattice_vectors was called, and the
\* positions are Missing exactly as long as positions was not called.
\* build_raw (on a Builder that is not poisoned) panics if and only if the
\* lattice is Missing, or the positions are Missing, or the positions are
\* Zeroed while group_counts is automatic; in every other case it returns a
\* raw structure, whatever validate would say about it; and build returns
\* what validate returns for that raw structure (and panics where build_raw
\* panics).  Stated for counts whose sum fits the machine word; the sum of
\* larger counts is C30's subject.
C22_BuilderRequiredFields ==
    [][/\ (~Poisoned /\ ~Poisoned') =>
            /\ builder'.v.v.lattice_vectors = Missing
                 <=> /\ builder.v.v.lattice_vectors = Missing
                     /\ out'.op \notin {"lattice_vectors", "dummy_lattice_vectors"}
            /\ builder'.v.v.positions = Missing
                 <=> (builder.v.v.positions = Missing /\ out'.op # "positions")
       /\ Built("build_raw")' =>
            /\ ("panic" \in DOMAIN out'.res) <=> RequiredMissing'
            /\ ~RequiredMissing' =>
                  /\ out'.res.ok
                  /\ out'.res.v.lattice_vectors = Taken'.lattice_vectors.v
                  /\ DOMAIN out'.res.v = DOMAIN Taken'
       /\ Built("build")' =>
            /\ ("panic" \in DOMAIN out'.res) <=> RequiredMissing'
            /\ ~RequiredMissing' => out'.res = Validate(BuildRaw(Taken').v)]_vars

\* build_raw has returned a raw structure that validate rejects for the
\* length of its positions
C22_Witness ==
    /\ Built("build_raw")
    /\ out.res.ok
    /\ Taken.group_counts # Auto
    /\ Len(out.res.v.positions.v) # SumSeq(out.res.v.group_counts)
    /\ Validate(out.res.v) = Err(WrongLength("positions", SumSeq(out.res.v.group_counts)))

\* the field of the Data a setter assigns
SetterField(op) ==
    CASE op \in {"lattice_vectors", "dummy_lattice_vectors"} -> "lattice_vectors"
      [] op \in {"velocities", "no_velocities"} -> "velocities"
      [] op \in {"group_counts", "auto_group_counts"} -> "group_counts"
      [] op \in {"group_symbols", "no_group_symbols"} -> "group_symbols"
      [] op \in {"dynamics", "no_dynamics"} -> "dynamics"
      [] OTHER -> op

\* what the field holds after the setter op was called with arg of type ty
SetterValue(op, ty, arg) ==
    CASE op \in {"comment", "scale"} -> arg
      [] op = "lattice_vectors" -> This(arg)
      [] op = "dummy_lattice_vectors" -> This(EYE)
      [] op \in {"positions", "velocities"} /\ ty = "Coords<Zeroed>" -> Zero(arg.tag)
      [] op \in {"auto_group_counts", "no_velocities", "no_dynamics", "no_group_symbols"}
            -> BuilderDefault[SetterField(op)]
      [] OTHER -> These(arg)

\* k zero vectors
AllZero(vs, k) == Len(vs) = k /\ \A i \in 1..Len(vs) : vs[i] = <<0, 0, 0>>

\* an optional field of the result against the field of the taken data
SameOption(res, field) ==
    IF field = NotGiven THEN res = None ELSE res = Some(field.v)

\* C23: Builder derived fields.  A setter assigns its own field and no other
\* (auto_group_counts, no_velocities, no_dynamics and no_group_symbols assign
\* the default), so the data build_raw takes holds, field by field, what the
\* last setter called for the field stored.  In the result of build_raw:
\* automatic group_counts become the one entry [number of positions]; Zeroed
\* positions become sum(group_counts) zero vectors with the requested tag;
\* Zeroed velocities become sum(resulting group_counts) zero vectors with the
\* requested tag, whatever the number of positions; every other field is the
\* field of the data.  Stated for counts whose sum fits the machine word; the
\* sum of larger counts is C30's subject.
C23_BuilderDerivedFields ==
    [][/\ (~Poisoned /\ out'.op \in SetterNames) =>
            /\ builder'.v.v[SetterField(out'.op)] = SetterValue(out'.op, out'.ty, out'.arg)
            /\ \A f \in DOMAIN builder.v.v \ {SetterField(out'.op)} :
                   builder'.v.v[f] = builder.v.v[f]
       /\ (Built("build_raw")' /\ out'.res.ok) =>
            LET r == out'.res.v
                d == Taken'
                n == SumSeq(r.group_counts)
            IN  /\ r.comment = d.comment
                /\ r.scale = d.scale
                /\ r.lattice_vectors = d.lattice_vectors.v
                /\ SameOption(r.group_symbols, d.group_symbols)
                /\ SameOption(r.dynamics, d.dynamics)
                /\ IF d.group_counts = Auto
                   THEN r.group_counts = <<Len(d.positions.v.v)>>
                   ELSE r.group_counts = d.group_counts.v
                /\ IF d.positions.k = "Zero"
                   THEN r.positions.tag = d.positions.tag /\ AllZero(r.positions.v, n)
                   ELSE r.positions = d.positions.v
                /\ IF d.velocities = NotGiven THEN r.velocities = None
                   ELSE IF d.velocities.k = "Zero"
                   THEN /\ r.velocities.some
                        /\ r.velocities.v.tag = d.velocities.tag
                        /\ AllZero(r.velocities.v.v, n)
                   ELSE r.velocities = Some(d.velocities.v)]_vars

\* build_raw has made Zeroed velocities for counts whose sum is not the
\* number of the positions
C23_Witness ==
    /\ Built("build_raw")
    /\ out.res.ok
    /\ Taken.velocities.k = "Zero"
    /\ Taken.positions.k = "These"
    /\ SumSeq(out.res.v.group_counts) > Len(out.res.v.positions.v)
    /\ Len(out.res.v.velocities.v.v) = SumSeq(out.res.v.group_counts)

(***************************************************************************)
(* Per-site symbols.                                                       *)
(***************************************************************************)
\* each group's symbol repeated that group's count times, in group order
SitesOf(p) ==
    Concat([i \in 1..Len(p.group_counts) |-> Repeat(p.group_symbols.v[i], p.group_counts[i])])

Reverse(s) == [i \in 1..Len(s) |-> s[Len(s) + 1 - i]]

\* everything the iterator still yields through next
RECURSIVE Drain(_)
Drain(it) ==
    IF WithKnownLenNext(it).item.some
    THEN <<WithKnownLenNext(it).item.v>> \o Drain(WithKnownLenNext(it).self)
    ELSE <<>>

\* the last call was about the iterator
OnIterator == out.op \in {"site_symbols", "next", "next_back"}

\* C24: per-site symbols.  For a validated structure with symbols,
\* site_symbols returns an iterator over each group's symbol repeated that
\* group's count times, in group order, num_sites items in all: after any
\* interleaving of next and next_back, the items next has returned are a
\* prefix of that list, the items next_back has returned are, reversed, a
\* suffix of it, the two do not overlap, what the iterator still yields is
\* exactly the part in between, and its len is the length of that part; a
\* call returns None only when nothing is left.  For a validated structure
\* without symbols group_symbols and site_symbols return None.
C24_SiteSymbols ==
    /\ (OnIterator /\ poscar.v.group_symbols.some) =>
          LET e == SitesOf(poscar.v)
              k == Len(out.front)
              m == Len(out.back)
          IN  /\ iter.some
              /\ Len(e) = num_sites(poscar.v)
              /\ k + m <= Len(e)
              /\ out.front = SubSeq(e, 1, k)
              /\ Reverse(out.back) = SubSeq(e, Len(e) - m + 1, Len(e))
              /\ Drain(iter.v) = SubSeq(e, k + 1, Len(e) - m)
              /\ WithKnownLenLen(iter.v) = Len(Drain(iter.v))
              /\ out.op # "site_symbols" => (out.item = None <=> out.had = 0)
    /\ (out.op = "site_symbols" /\ ~poscar.v.group_symbols.some) =>
          (out.res = None /\ iter = None)
    /\ out.op = "group_symbols" =>
          (out.res = None <=> ~poscar.v.group_symbols.some)
    /\ (out.op = "group_symbols" /\ out.res.some) =>
          (out.res.v = poscar.v.group_symbols.v /\ Len(out.res.v) = Len(Poscar_group_counts(poscar.v)))

\* items have been taken from both ends of the sites of a structure with an
\* empty group, and some are left
C24_Witness ==
    /\ OnIterator /\ iter.some
    /\ \E i \in 1..Len(poscar.v.group_counts) : poscar.v.group_counts[i] = 0
    /\ Len(out.front) >= 1
    /\ Len(out.back) >= 1
    /\ out.op = "next_back"
    /\ WithKnownLenLen(iter.v) >= 1

(***************************************************************************)
(* The computed accessors.                                                 *)
(***************************************************************************)
\* the structure in hand with another scale line
Rescaled(sc) == [poscar.v EXCEPT !.scale = sc]

\* the scale lines the structure in hand could have instead
OtherScales == AccessorScales(poscar.v.lattice_vectors)

\* Grid times component j of the row vector v times the matrix m, for v and
\* m on the grid
RowTimes(v, m, j) == v[1] * m[1][j] + v[2] * m[2][j] + v[3] * m[3][j]

\* vs is, row by row, ws times the matrix m
IsProduct(vs, ws, m) ==
    /\ Len(vs) = Len(ws)
    /\ OnGrid(vs)
    /\ \A k \in 1..Len(vs) : \A j \in 1..3 : vs[k][j] * Grid = RowTimes(ws[k], m, j)

\* C25: velocities ignore the scale line.  For a validated structure,
\* cart_velocities and frac_velocities return what they return for the
\* structure with any other scale line and the same other fields; both
\* return None when there are no velocities; velocities stored in the
\* requested system are returned as stored; velocities stored as Fractional
\* are returned by cart_velocities as row vector times the unscaled lattice
\* (and those stored as Cartesian are returned by frac_velocities as the
\* vectors whose product with the unscaled lattice is the stored ones).
C25_VelocitiesIgnoreScale ==
    /\ out.op = "cart_velocities" =>
          /\ \A sc \in OtherScales : cart_velocities(Rescaled(sc)) = out.res
          /\ out.res.some <=> poscar.v.velocities.some
          /\ (out.res.some /\ poscar.v.velocities.v.tag = "Cart") =>
                out.res.v = GridVecs(poscar.v.velocities.v.v)
          /\ (out.res.some /\ poscar.v.velocities.v.tag = "Frac") =>
                IsProduct(out.res.v, GridVecs(poscar.v.velocities.v.v),
                          GridVecs(poscar.v.lattice_vectors))
    /\ out.op = "frac_velocities" =>
          /\ \A sc \in OtherScales : frac_velocities(Rescaled(sc)) = out.res
          /\ out.res.some <=> poscar.v.velocities.some
          /\ (out.res.some /\ poscar.v.velocities.v.tag = "Frac") =>
                out.res.v = GridVecs(poscar.v.velocities.v.v)
          /\ (out.res.some /\ poscar.v.velocities.v.tag = "Cart") =>
                /\ OnGrid(out.res.v)
                /\ IsProduct(GridVecs(poscar.v.velocities.v.v), out.res.v,
                             GridVecs(poscar.v.lattice_vectors))

\* cart_velocities has converted Fractional velocities of a structure whose
\* lattice is not the identity and whose scale is a volume
C25_Witness ==
    /\ out.op = "cart_velocities"
    /\ out.res.some
    /\ poscar.v.velocities.v.tag = "Frac"
    /\ poscar.v.lattice_vectors = UNSCALED_LATTICE
    /\ poscar.v.scale.tag = "Volume"
    /\ effective_scale_factor(poscar.v) # Grid
    /\ out.res.v # GridVecs(poscar.v.velocities.v.v)

\* the lattice of the structure in hand, on the grid
HeldLattice == GridVecs(poscar.v.lattice_vectors)

\* the positions of the structure in hand as they are stored, on the grid
StoredPositions == GridVecs(poscar.v.positions.v)

\* every component of vs divided by x
DividedBy(vs, x) == [k \in 1..Len(vs) |-> [i \in 1..3 |-> GDiv(vs[k][i], x)]]

\* C26: coordinate conversion inverse.  For a validated structure whose
\* lattice is integer valued with determinant 1, -1, 2 or -8: the Cartesian
\* positions unscaled_cart_positions computes from stored Fractional ones,
\* converted back with the cofactor inverse of the lattice, are the stored
\* positions; inverse(lattice) times lattice is the identity; and for
\* positions stored as Cartesian, scaled_cart_positions divided by the
\* effective scale factor is unscaled_cart_positions.
C26_ConversionInverse ==
    /\ (out.op = "unscaled_cart_positions" /\ poscar.v.positions.tag = "Frac") =>
          /\ OnGrid(out.res)
          /\ IsProduct(out.res, StoredPositions, HeldLattice)
          /\ to_tag(Cart(out.res), HeldLattice, "Frac") = StoredPositions
    /\ out.op = "unscaled_lattice_vectors" =>
          /\ out.res = HeldLattice
          /\ det_f64(out.res) = IntDet(poscar.v.lattice_vectors) * Grid
          /\ mul_n3_33(inv_f64(out.res), out.res) = GridVecs(EYE)
    /\ (out.op = "scaled_cart_positions" /\ poscar.v.positions.tag = "Cart") =>
          /\ OnGrid(out.res)
          /\ DividedBy(out.res, effective_scale_factor(poscar.v)) = unscaled_cart_positions(poscar.v)
          /\ unscaled_cart_positions(poscar.v) = StoredPositions

\* Fractional positions have been converted with a lattice of determinant
\* -8, and are not what is stored
C26_Witness ==
    /\ out.op = "unscaled_cart_positions"
    /\ poscar.v.positions.tag = "Frac"
    /\ IntDet(poscar.v.lattice_vectors) = 0 - 8
    /\ Len(out.res) = MaxAtoms
    /\ out.res # StoredPositions

\* the factor f, in tenths, of the structure in hand: its scale line is
\* Factor(f) or Volume(|d| * f^3)
HeldFactor ==
    IF poscar.v.scale.tag = "Factor" THEN poscar.v.scale.x
    ELSE CHOOSE f \in AccessorFactors :
            /\ (Abs(IntDet(poscar.v.lattice_vectors)) * f * f * f) % 100 = 0
            /\ VolumeOf(poscar.v.lattice_vectors, f) = poscar.v.scale.x

\* the two scale lines of the same cell, where the volume is among the
\* enumerated ones
TwinScales ==
    {Factor(HeldFactor), Volume(VolumeOf(poscar.v.lattice_vectors, HeldFactor))}
        \cap OtherScales

\* C27: the two scale modes describe the same cell.  For a validated
\* structure whose lattice has determinant d # 0 and whose scale line is
\* Factor(f) or Volume(|d| * f^3): the effective scale factor is f;
\* scaled_volume is |d| * f^3; scaled_lattice_vectors is every unscaled
\* component times f; scaled_cart_positions is the unscaled Cartesian
\* positions times f, for positions stored as Fractional and as Cartesian;
\* each of these and scaled_positions is what the structure with the other
\* of the two scale lines gives; and unscaled_lattice_vectors,
\* frac_positions and unscaled_cart_positions are the same under every
\* scale line.
C27_ScaleModesAgree ==
    /\ (poscar.some /\ out.op # "validate" /\ out.op # "none") =>
          /\ IntDet(poscar.v.lattice_vectors) # 0
          /\ effective_scale_factor(poscar.v) = ToGrid(HeldFactor)
          /\ \A sc \in TwinScales :
                effective_scale_factor(Rescaled(sc)) = effective_scale_factor(poscar.v)
    /\ out.op = "scaled_volume" =>
          /\ out.res # OffGrid
          /\ out.res * 1000
               = Abs(IntDet(poscar.v.lattice_vectors)) * HeldFactor * HeldFactor * HeldFactor * Grid
          /\ \A sc \in TwinScales : scaled_volume(Rescaled(sc)) = out.res
    /\ out.op = "scaled_lattice_vectors" =>
          /\ OnGrid(out.res)
          /\ \A r \in 1..3 : \A c \in 1..3 : out.res[r][c] * 10 = HeldLattice[r][c] * HeldFactor
          /\ \A sc \in TwinScales : scaled_lattice_vectors(Rescaled(sc)) = out.res
    /\ out.op = "scaled_cart_positions" =>
          /\ OnGrid(out.res)
          /\ Len(out.res) = Len(StoredPositions)
          /\ \A k \in 1..Len(out.res) : \A i \in 1..3 :
                out.res[k][i] * 10 = unscaled_cart_positions(poscar.v)[k][i] * HeldFactor
          /\ \A sc \in TwinScales : scaled_cart_positions(Rescaled(sc)) = out.res
    /\ out.op = "scaled_positions" =>
          /\ out.res.tag = poscar.v.positions.tag
          /\ \A sc \in TwinScales : scaled_positions(Rescaled(sc)) = out.res
    /\ out.op = "unscaled_lattice_vectors" =>
          \A sc \in OtherScales : unscaled_lattice_vectors(Rescaled(sc)) = out.res
    /\ out.op = "frac_positions" =>
          \A sc \in OtherScales : frac_positions(Rescaled(sc)) = out.res
    /\ out.op = "unscaled_cart_positions" =>
          \A sc \in OtherScales : unscaled_cart_positions(Rescaled(sc)) = out.res

\* scaled_cart_positions has been computed from Fractional positions under a
\* target volume whose factor is not 1, and the cell has a Factor twin
C27_Witness ==
    /\ out.op = "scaled_cart_positions"
    /\ poscar.v.scale.tag = "Volume"
    /\ poscar.v.positions.tag = "Frac"
    /\ poscar.v.lattice_vectors = UNSCALED_LATTICE
    /\ HeldFactor # 10
    /\ Cardinality(TwinScales) = 2
    /\ out.res # unscaled_cart_positions(poscar.v)

\* the line read after the lattice of the last parse, as the reader holds it
GroupsLine == Spanned(5, 0, InputLines[6])

\* C28: the parser is total.  For every finite sequence of input lines,
\* lines made only of characters that trim removes but that do not separate
\* words included, parsing returns a structure or an error: the byte index
\* that classifies the symbols/counts line is never out of range, and the
\* tokenizer never reaches its 'never encountered whitespace' panic.  (The
\* abort of the validation that ends parsing is C3's subject and is not
\* counted here.)
C28_ParserTotal ==
    out.op = "parse" =>
        /\ out.res.st = "panic" => out.res = ParsePanic(InvariantNotChecked)
        /\ \A i \in 1..Len(InputLines) : ~WordsPanics(Spanned(i - 1, 0, InputLines[i]))

\* the tokenizer's panic is out of reach on every line of every file read
TokenizerNeverPanics ==
    out.op = "parse" =>
        \A i \in 1..Len(InputLines) : ~WordsPanics(Spanned(i - 1, 0, InputLines[i]))

\* the symbols/counts line of the last parse has a word, and nothing is left
\* of it after trimming: the byte index 0 is out of range
ClassifiedEmptyLine ==
    /\ out.op = "parse"
    /\ Len(InputLines) >= 6
    /\ Words(GroupsLine) # <<>>
    /\ Trim(GroupsLine.s) = <<>>
    /\ out.res = ParsePanic("index out of bounds")

\* the 1-based numbers of the lines of the last parse that failed to read
FailedReads == {i \in 1..Len(InputLines) : ReadFails(InputLines[i])}

\* C29: read errors are never swallowed.  If the line source reports a read
\* error for a line the parser asks for, the lines after the last position
\* line included, parsing does not succeed: the error is not taken for the
\* end of the input, and no content is accepted unread or unchecked.
C29_ReadErrorsReported ==
    (out.op = "parse" /\ FailedReads # {}) => out.res.st # "ok"

\* a read error at one of the first eight lines is returned as it is
HeadReadErrorsReturned ==
    (out.op = "parse" /\ FailedReads \cap 1..8 # {}) => out.res = ParseErr(InvalidData)

\* a parse that succeeded although a line failed to read and a later line,
\* never asked for, is not blank
ReadErrorSwallowed ==
    /\ out.op = "parse"
    /\ out.res.st = "ok"
    /\ \E i \in FailedReads : \E j \in (i + 1)..Len(InputLines) : InputLines[j] = <<"x">>

\* the number of sites of a raw structure fits its counts, summed in the
\* integers
ExactlyCounted(r) ==
    /\ TotalAtoms(r.group_counts) >= 1
    /\ Len(r.positions.v) = TotalAtoms(r.group_counts)
    /\ r.velocities.some => Len(r.velocities.v.v) = TotalAtoms(r.group_counts)
    /\ r.dynamics.some => Len(r.dynamics.v) = TotalAtoms(r.group_counts)

\* C30: the total atom count used by the parser, by validate and by
\* build_raw is the exact sum of group_counts.  No list of counts whose sum
\* exceeds the machine word wraps around to a small total: a structure the
\* parser or validate accepts has exactly as many positions, velocities and
\* flags as its counts add up to, the parser reads that many position
\* lines, and the Zeroed positions and velocities build_raw creates are that
\* many.
C30_ExactAtomCount ==
    /\ (out.op = "parse" /\ out.res.st = "ok") => ExactlyCounted(out.res.poscar)
    /\ (out.op = "validate" /\ out.res.ok) => ExactlyCounted(out.arg)
    /\ (out.op = "build" /\ out.res.ok) => ExactlyCounted(out.res.v)
    /\ (out.op = "build_raw" /\ out.res.ok) =>
          /\ out.data.v.positions.k = "Zero" =>
                Len(out.res.v.positions.v) = TotalAtoms(out.res.v.group_counts)
          /\ out.data.v.velocities.k = "Zero" =>
                Len(out.res.v.velocities.v.v) = TotalAtoms(out.res.v.group_counts)

\* without overflow checks: a file whose counts add up to more than the
\* machine word has been parsed into a structure of one site
CountsWrapped ==
    /\ ~overflow_checks
    /\ out.op = "parse" /\ out.res.st = "ok"
    /\ TotalAtoms(out.res.poscar.group_counts) > UsizeMax
    /\ Len(out.res.poscar.positions.v) = 1

\* with overflow checks: the sum of such counts has panicked in the parser,
\* in validate or in build_raw
CountsSumPanicked(op) ==
    /\ overflow_checks
    /\ out.op = op
    /\ IF op = "parse" THEN out.res = ParsePanic(AddOverflow) ELSE out.res = Panic(AddOverflow)

\* counts whose sum fits the machine word are summed exactly under either
\* build
SmallCountsExact ==
    /\ (out.op = "validate" /\ TotalAtoms(out.arg.group_counts) <= UsizeMax) =>
          /\ out.res.ok <=> ExactlyCounted(out.arg)
          /\ ~out.res.ok => out.res.err.kind = "WrongLength"
    /\ (out.op = "parse" /\ out.res.st = "ok"
            /\ TotalAtoms(out.res.poscar.group_counts) <= UsizeMax) =>
          ExactlyCounted(out.res.poscar)

====
